---- MODULE Spec2Model ----
(***************************************************************************)
(* Binary G-code (.bgcode) container codec of prusa_pa_calibration:        *)
(* _write_bgcode (encoder) and bgcode_to_ascii (decoder) of _common.py.    *)
(* Bytes are integers 0..255, byte strings are sequences of bytes, a str   *)
(* is a sequence of Unicode code points.  Python offsets are 0-based; the  *)
(* helpers At and Slice translate them to TLA+ sequences.                  *)
(***************************************************************************)
EXTENDS Integers, Sequences, FiniteSets, TLC

(***************************************************************************)
(* Byte-string primitives (Python bytes indexing and slicing).             *)
(***************************************************************************)
Min(a, b) == IF a < b THEN a ELSE b

\* data[i] for a 0-based offset i
At(data, i) == data[i + 1]

\* data[a:b] with Python's clamping of the slice to the buffer
Slice(data, a, b) == SubSeq(data, Min(a, Len(data)) + 1, Min(b, Len(data)))

RECURSIVE Concat(_)
\* b"".join(seqs)
Concat(seqs) == IF seqs = <<>> THEN <<>> ELSE Head(seqs) \o Concat(Tail(seqs))

(***************************************************************************)
(* Unsigned 32-bit words are kept as their four little-endian bytes        *)
(* <<b0, b1, b2, b3>>, which is also what struct.pack("<I", w) writes.     *)
(***************************************************************************)
RECURSIVE XorBits(_, _, _)
XorBits(a, b, n) ==
  IF n = 0 THEN 0
  ELSE (IF (a % 2) = (b % 2) THEN 0 ELSE 1) + 2 * XorBits(a \div 2, b \div 2, n - 1)

Xor4 == [a \in 0..15 |-> [b \in 0..15 |-> XorBits(a, b, 4)]]

Xor8(a, b) == 16 * Xor4[a \div 16][b \div 16] + Xor4[a % 16][b % 16]

Xor32(v, w) == <<Xor8(v[1], w[1]), Xor8(v[2], w[2]), Xor8(v[3], w[3]), Xor8(v[4], w[4])>>

\* w >> 1
Shr1(w) == <<(w[1] \div 2) + 128 * (w[2] % 2), (w[2] \div 2) + 128 * (w[3] % 2),
             (w[3] \div 2) + 128 * (w[4] % 2), w[4] \div 2>>

\* w >> 8
Shr8(w) == <<w[2], w[3], w[4], 0>>

\* w ^ 0xFFFFFFFF
Not32(w) == <<255 - w[1], 255 - w[2], 255 - w[3], 255 - w[4]>>

(***************************************************************************)
(* zlib.crc32(data, prev) & 0xFFFFFFFF: the reflected CRC-32 of zlib with  *)
(* polynomial 0xEDB88320, table driven, continuing from a previous value.  *)
(***************************************************************************)
CrcPoly == <<32, 131, 184, 237>>

RECURSIVE CrcTableEntry(_, _)
CrcTableEntry(c, k) ==
  IF k = 0 THEN c
  ELSE CrcTableEntry(IF c[1] % 2 = 1 THEN Xor32(CrcPoly, Shr1(c)) ELSE Shr1(c), k - 1)

CrcTable == [n \in 0..255 |-> CrcTableEntry(<<n, 0, 0, 0>>, 8)]

\* one table step: T[(c ^ b) & 0xFF] ^ (c >> 8)
CrcStep(c, b) == Xor32(CrcTable[Xor8(c[1], b)], Shr8(c))

RECURSIVE CrcUpdate(_, _, _, _)
\* the register c after the bytes data[lo..hi] (1-based, in order).  The range is
\* halved and the left half is evaluated (the test on left) before the right
\* half starts, so that the evaluation depth stays logarithmic in the length.
CrcUpdate(c, data, lo, hi) ==
  IF lo > hi THEN c
  ELSE IF lo = hi THEN CrcStep(c, data[lo])
  ELSE LET left == CrcUpdate(c, data, lo, (lo + hi) \div 2)
       IN  IF Len(left) = 4 THEN CrcUpdate(left, data, ((lo + hi) \div 2) + 1, hi)
           ELSE left

\* zlib.crc32(data, prev) & 0xFFFFFFFF
Crc32(data, prev) == Not32(CrcUpdate(Not32(prev), data, 1, Len(data)))

\* zlib.crc32(data) & 0xFFFFFFFF
Crc32Of(data) == Crc32(data, <<0, 0, 0, 0>>)

(***************************************************************************)
(* struct.pack / struct.unpack_from, little-endian.                        *)
(***************************************************************************)
\* struct.pack("<H", v) accepts 0 <= v <= 0xFFFF and raises struct.error otherwise
PackableH(v) == v \in 0..65535

\* struct.pack("<H", v)
PackH(v) == <<v % 256, v \div 256>>

\* struct.pack("<I", v), for the sizes 0 <= v < 2^31 that occur
PackI(v) == <<v % 256, (v \div 256) % 256, (v \div 65536) % 256, v \div 16777216>>

\* struct.unpack_from(fmt, data, off) raises struct.error unless off + size <= len(data)
CanUnpack(data, off, size) == off + size <= Len(data)

\* struct.unpack_from("<H", data, off)
UnpackH(data, off) == At(data, off) + 256 * At(data, off + 1)

\* A size that is at least 2^30 is kept as 2^30: sizes are only ever added to an
\* offset and compared with len(data), which stays far below.
HugeSize == 64 * 16777216

\* struct.unpack_from("<I", data, off)
UnpackI(data, off) ==
  IF At(data, off + 3) >= 64 THEN HugeSize
  ELSE At(data, off) + 256 * At(data, off + 1) + 65536 * At(data, off + 2)
       + 16777216 * At(data, off + 3)

(***************************************************************************)
(* str.encode("utf-8") and bytes.decode("utf-8"), strict.                  *)
(***************************************************************************)
IsSurrogate(cp) == cp >= 55296 /\ cp <= 57343

\* a variant of Utf8Char: code points below 256 written as one byte (Latin-1)
Utf8CharAsLatin1(cp) ==
  IF cp < 256 THEN <<cp>>
  ELSE IF cp < 2048 THEN <<192 + (cp \div 64), 128 + (cp % 64)>>
  ELSE <<224 + (cp \div 4096), 128 + ((cp \div 64) % 64), 128 + (cp % 64)>>

\* the UTF-8 bytes of one code point
Utf8Char(cp) ==
  IF cp < 128 THEN <<cp>>
  ELSE IF cp < 2048 THEN <<192 + (cp \div 64), 128 + (cp % 64)>>
  ELSE IF cp < 65536
    THEN <<224 + (cp \div 4096), 128 + ((cp \div 64) % 64), 128 + (cp % 64)>>
  ELSE <<240 + (cp \div 262144), 128 + ((cp \div 4096) % 64),
         128 + ((cp \div 64) % 64), 128 + (cp % 64)>>

\* str.encode raises UnicodeEncodeError on a lone surrogate
Encodable(text) == \A i \in 1..Len(text) : ~IsSurrogate(text[i])

RECURSIVE Utf8Encode(_)
\* text.encode("utf-8")
Utf8Encode(text) ==
  IF text = <<>> THEN <<>> ELSE Utf8Char(Head(text)) \o Utf8Encode(Tail(text))

IsCont(b) == b >= 128 /\ b <= 191

\* the length of the UTF-8 sequence a lead byte announces, 0 for an invalid lead
Utf8SeqLen(b) ==
  IF b < 128 THEN 1
  ELSE IF b >= 194 /\ b <= 223 THEN 2
  ELSE IF b >= 224 /\ b <= 239 THEN 3
  ELSE IF b >= 240 /\ b <= 244 THEN 4
  ELSE 0

\* the code point of the well-formed sequence of n bytes starting at raw[i], or -1
Utf8CodePoint(raw, i, n) ==
  IF n = 0 \/ i + n - 1 > Len(raw) THEN -1
  ELSE IF n = 1 THEN raw[i]
  ELSE IF \E k \in 1..(n - 1) : ~IsCont(raw[i + k]) THEN -1
  ELSE IF n = 2 THEN (raw[i] - 192) * 64 + (raw[i + 1] - 128)
  ELSE IF n = 3 THEN
    LET cp == (raw[i] - 224) * 4096 + (raw[i + 1] - 128) * 64 + (raw[i + 2] - 128)
    IN  IF cp < 2048 \/ IsSurrogate(cp) THEN -1 ELSE cp
  ELSE
    LET cp == (raw[i] - 240) * 262144 + (raw[i + 1] - 128) * 4096
              + (raw[i + 2] - 128) * 64 + (raw[i + 3] - 128)
    IN  IF cp < 65536 \/ cp > 1114111 THEN -1 ELSE cp

RECURSIVE Utf8DecodeFrom(_, _)
\* the code points of raw[i..], or <<-1>> appended where decoding fails
Utf8DecodeFrom(raw, i) ==
  IF i > Len(raw) THEN <<>>
  ELSE LET n  == Utf8SeqLen(raw[i])
           cp == Utf8CodePoint(raw, i, n)
       IN  IF cp < 0 THEN <<-1>> ELSE <<cp>> \o Utf8DecodeFrom(raw, i + n)

\* raw.decode("utf-8") raises UnicodeDecodeError unless raw is well-formed UTF-8
Decodable(raw) == \A j \in 1..Len(Utf8DecodeFrom(raw, 1)) : Utf8DecodeFrom(raw, 1)[j] >= 0

\* raw.decode("utf-8")
Utf8Decode(raw) == Utf8DecodeFrom(raw, 1)

(***************************************************************************)
(* zlib: Adler-32, the zlib wrapper and the DEFLATE bit stream.            *)
(* compressobj(level=6, wbits=15) and compress(data, 6) are modelled for   *)
(* the short inputs that zlib codes as one fixed-Huffman block: literals   *)
(* and the matches that deflate_slow finds with lazy evaluation.           *)
(* decompress is modelled for stored and fixed-Huffman blocks; a stream    *)
(* with a dynamic-Huffman block has the status "unmodelled".               *)
(***************************************************************************)
RECURSIVE AdlerA(_, _)
AdlerA(data, n) == IF n = 0 THEN 1 ELSE (AdlerA(data, n - 1) + data[n]) % 65521

RECURSIVE AdlerB(_, _)
AdlerB(data, n) == IF n = 0 THEN 0 ELSE (AdlerB(data, n - 1) + AdlerA(data, n)) % 65521

\* zlib.adler32(data) as the four big-endian bytes that end a zlib stream
Adler32(data) ==
  LET a == AdlerA(data, Len(data))
      b == AdlerB(data, Len(data))
  IN  <<b \div 256, b % 256, a \div 256, a % 256>>

RECURSIVE BitsMsb(_, _)
\* the n low bits of v, most significant first (a Huffman code)
BitsMsb(v, n) == IF n = 0 THEN <<>> ELSE BitsMsb(v \div 2, n - 1) \o <<v % 2>>

\* the fixed-Huffman code of a literal byte (RFC 1951, 3.2.6)
LiteralCode(b) == IF b < 144 THEN BitsMsb(48 + b, 8) ELSE BitsMsb(400 + (b - 144), 9)

\* RFC 1951, 3.2.5: the base length and extra bits of the length codes 257..285
LengthBase ==
  <<3, 4, 5, 6, 7, 8, 9, 10, 11, 13, 15, 17, 19, 23, 27, 31, 35, 43, 51, 59, 67, 83, 99,
    115, 131, 163, 195, 227, 258>>

LengthExtra ==
  <<0, 0, 0, 0, 0, 0, 0, 0, 1, 1, 1, 1, 2, 2, 2, 2, 3, 3, 3, 3, 4, 4, 4, 4, 5, 5, 5, 5, 0>>

\* the base distance and extra bits of the distance codes 0..29
DistBase ==
  <<1, 2, 3, 4, 5, 7, 9, 13, 17, 25, 33, 49, 65, 97, 129, 193, 257, 385, 513, 769, 1025,
    1537, 2049, 3073, 4097, 6145, 8193, 12289, 16385, 24577>>

DistExtra ==
  <<0, 0, 0, 0, 1, 1, 2, 2, 3, 3, 4, 4, 5, 5, 6, 6, 7, 7, 8, 8, 9, 9, 10, 10, 11, 11, 12,
    12, 13, 13>>

\* the member of a one-element set: in Only({e(x) : x \in {v}}) the value v is
\* computed once and named x in e
Only(S) == CHOOSE x \in S : TRUE

\* the largest member of a non-empty set of numbers
SetMax(S) == CHOOSE x \in S : \A y \in S : y <= x

\* the index of the code whose range holds v
CodeIndex(base, v) == SetMax({i \in 1..Len(base) : base[i] <= v})

RECURSIVE MatchLen(_, _, _, _)
\* k plus the number of bytes, up to 258 in all, that agree from the offsets
\* a + k and b + k on
MatchLen(data, a, b, k) ==
  IF b + k < Len(data) /\ k < 258 /\ At(data, a + k) = At(data, b + k)
    THEN MatchLen(data, a, b, k + 1)
    ELSE k

\* the longest of the strings that start at the offsets in found and agree
\* with the one at s, and of several the nearest
MatchAmong(data, s, found, best) ==
  [len |-> best, start |-> SetMax({c \in found : MatchLen(data, c, s, 0) = best})]

\* zlib's longest_match at offset s: the longest earlier string, if longer than
\* prev_len, and of several the nearest; offset 0 is never a candidate (NIL)
LongestMatch(data, s, prev_len) ==
  IF \A c \in 1..(s - 1) : MatchLen(data, c, s, 0) <= prev_len
    THEN [len |-> 2, start |-> 0]
    ELSE MatchAmong(data, s, {c \in 1..(s - 1) : MatchLen(data, c, s, 0) > prev_len},
                    SetMax({MatchLen(data, c, s, 0) : c \in 1..(s - 1)}))

RECURSIVE LzTokens(_, _, _, _, _)
\* one step of deflate_slow at offset s, where m is the match found there: the
\* previous match is emitted unless m is longer, else the previous byte
LzStep(data, s, prev_len, prev_match, avail, m) ==
  IF prev_len >= 3 /\ m.len <= prev_len
    THEN <<<<prev_len, s - 1 - prev_match>>>> \o LzTokens(data, s - 1 + prev_len, 2, 0, FALSE)
  ELSE (IF avail THEN <<<<0, At(data, s - 1)>>>> ELSE <<>>)
       \o LzTokens(data, s + 1, m.len, m.start, TRUE)

\* zlib's deflate_slow (levels 4..9, max_lazy 16) from offset s on: a token is
\* <<0, byte>> for a literal and <<length, distance>> for a match
LzTokens(data, s, prev_len, prev_match, avail) ==
  IF s >= Len(data) THEN (IF avail THEN <<<<0, At(data, Len(data) - 1)>>>> ELSE <<>>)
  ELSE LzStep(data, s, prev_len, prev_match, avail,
              IF Len(data) - s >= 3 /\ prev_len < 16
                THEN LongestMatch(data, s, prev_len)
                ELSE [len |-> 2, start |-> 0])

\* the n low bits of v, least significant first (extra bits)
ExtraBits(v, n) == [i \in 1..n |-> (v \div (2 ^ (i - 1))) % 2]

\* the fixed-Huffman code of a length symbol 257..287
LengthSymbolCode(x) == IF x < 280 THEN BitsMsb(x - 256, 7) ELSE BitsMsb(192 + (x - 280), 8)

\* the bits of a match of length len (code i) at distance dist (code j)
MatchBits(len, dist, i, j) ==
  LengthSymbolCode(256 + i) \o ExtraBits(len - LengthBase[i], LengthExtra[i])
  \o BitsMsb(j - 1, 5) \o ExtraBits(dist - DistBase[j], DistExtra[j])

\* the bits of one token in a fixed-Huffman block
TokenBits(t) ==
  IF t[1] = 0 THEN LiteralCode(t[2])
  ELSE MatchBits(t[1], t[2], CodeIndex(LengthBase, t[1]), CodeIndex(DistBase, t[2]))

RECURSIVE LzBits(_)
LzBits(tokens) ==
  IF tokens = <<>> THEN <<>> ELSE TokenBits(Head(tokens)) \o LzBits(Tail(tokens))

\* bits are packed into bytes starting at the least significant bit
BitAt(bits, i) == IF i <= Len(bits) THEN bits[i] ELSE 0

PackBits(bits) ==
  [k \in 1..((Len(bits) + 7) \div 8) |->
     BitAt(bits, 8 * k - 7) + 2 * BitAt(bits, 8 * k - 6) + 4 * BitAt(bits, 8 * k - 5)
     + 8 * BitAt(bits, 8 * k - 4) + 16 * BitAt(bits, 8 * k - 3)
     + 32 * BitAt(bits, 8 * k - 2) + 64 * BitAt(bits, 8 * k - 1)
     + 128 * BitAt(bits, 8 * k)]

\* the final fixed-Huffman block that zlib writes for data, as bytes
FixedBlock(data) ==
  PackBits(<<1, 1, 0>> \o LzBits(LzTokens(data, 0, 2, 0, FALSE)) \o <<0, 0, 0, 0, 0, 0, 0>>)

\* _deflate(data): header 0x78 0x9C, one final fixed-Huffman block, Adler-32
Deflate(data) == <<120, 156>> \o FixedBlock(data) \o Adler32(data)

\* bit i (0-based, least significant first within each byte) of a byte string
StreamBit(z, i) == (At(z, i \div 8) \div (2 ^ (i % 8))) % 2

\* the n bits from bit offset i read as a Huffman code (first bit most significant)
RECURSIVE CodeAt(_, _, _)
CodeAt(z, i, n) == IF n = 0 THEN 0 ELSE 2 * CodeAt(z, i, n - 1) + StreamBit(z, i + n - 1)

\* the n bits from bit offset i read as a number (first bit least significant)
RECURSIVE ExtraAt(_, _, _)
ExtraAt(z, i, n) == IF n = 0 THEN 0 ELSE StreamBit(z, i) + 2 * ExtraAt(z, i + 1, n - 1)

RECURSIVE CopyMatch(_, _, _)
\* out with n more bytes, each a copy of the byte dist places before it
CopyMatch(out, dist, n) ==
  IF n = 0 THEN out ELSE CopyMatch(Append(out, out[Len(out) - dist + 1]), dist, n - 1)

\* the copy of len bytes from dist bytes back, which must not be before the
\* start of out; the next symbol is at bit offset i
CopyAt(i, out, len, dist) ==
  IF dist > Len(out) THEN [status |-> "error", out |-> out, bit |-> i]
  ELSE [status |-> "more", out |-> CopyMatch(out, dist, len), bit |-> i]

\* the distance of a match of len bytes, whose 5-bit code dc (0..29) ends at
\* bit offset i and is followed by extra bits
DistAt(z, i, out, len, dc) ==
  IF dc > 29 THEN [status |-> "error", out |-> out, bit |-> i]
  ELSE IF i + DistExtra[dc + 1] > 8 * Len(z) THEN [status |-> "error", out |-> out, bit |-> i]
  ELSE Only({CopyAt(i + DistExtra[dc + 1], out, len, dist) :
               dist \in {DistBase[dc + 1] + ExtraAt(z, i, DistExtra[dc + 1])}})

\* a match whose length symbol sym (257..287) ends at bit offset i: the extra
\* bits of the length, then the distance; status "more" when copied
MatchAt(z, i, out, sym) ==
  IF sym > 285 THEN [status |-> "error", out |-> out, bit |-> i]
  ELSE IF i + LengthExtra[sym - 256] + 5 > 8 * Len(z)
    THEN [status |-> "error", out |-> out, bit |-> i]
  ELSE Only({DistAt(z, i + LengthExtra[sym - 256] + 5, out, len, dc) :
               len \in {LengthBase[sym - 256] + ExtraAt(z, i, LengthExtra[sym - 256])},
               dc \in {CodeAt(z, i + LengthExtra[sym - 256], 5)}})

\* a symbol that is not a 7-bit code, whose first 8 bits are the code c8: a
\* literal 0..143, a length symbol 280..287, or a 9-bit literal 144..255
LongSymbolAt(z, i, out, c8) ==
  IF c8 >= 48 /\ c8 <= 191 THEN [status |-> "more", out |-> Append(out, c8 - 48), bit |-> i + 8]
  ELSE IF c8 >= 192 /\ c8 <= 199 THEN MatchAt(z, i + 8, out, 280 + (c8 - 192))
  ELSE IF i + 9 > 8 * Len(z) THEN [status |-> "error", out |-> out, bit |-> i]
  ELSE [status |-> "more", out |-> Append(out, CodeAt(z, i, 9) - 400 + 144), bit |-> i + 9]

\* the symbol whose first 7 bits are the code c7: the end of the block (status
\* "ok"), a length symbol 257..279, or a longer code
ShortSymbolAt(z, i, out, c7) ==
  IF c7 = 0 THEN [status |-> "ok", out |-> out, bit |-> i + 7]
  ELSE IF c7 <= 23 THEN MatchAt(z, i + 7, out, 256 + c7)
  ELSE IF i + 8 > 8 * Len(z) THEN [status |-> "error", out |-> out, bit |-> i]
  ELSE Only({LongSymbolAt(z, i, out, c8) : c8 \in {CodeAt(z, i, 8)}})

\* the symbol of a fixed-Huffman block at bit offset i, with the literal or the
\* match appended to out (status "more")
SymbolAt(z, i, out) ==
  IF i + 7 > 8 * Len(z) THEN [status |-> "error", out |-> out, bit |-> i]
  ELSE Only({ShortSymbolAt(z, i, out, c7) : c7 \in {CodeAt(z, i, 7)}})

RECURSIVE InflateFixed(_, _, _)
\* the symbols that follow the symbol s, if it was not the last
InflateRest(z, s) == IF s.status = "more" THEN InflateFixed(z, s.bit, s.out) ELSE s

\* the symbols of a fixed-Huffman block from bit offset i, appended to out
InflateFixed(z, i, out) == Only({InflateRest(z, s) : s \in {SymbolAt(z, i, out)}})

RECURSIVE InflateBlocks(_, _, _)
\* the DEFLATE blocks of z from bit offset i, appended to out
InflateBlocks(z, i, out) ==
  IF i + 3 > 8 * Len(z) THEN [status |-> "error", out |-> out, bit |-> i]
  ELSE
    LET final == StreamBit(z, i)
        btype == StreamBit(z, i + 1) + 2 * StreamBit(z, i + 2)
        blk ==
          IF btype = 0 THEN
            LET at == (i + 3 + 7) \div 8
            IN  IF at + 4 > Len(z) THEN [status |-> "error", out |-> out, bit |-> i]
                ELSE IF UnpackH(z, at) + UnpackH(z, at + 2) # 65535
                  THEN [status |-> "error", out |-> out, bit |-> i]
                ELSE IF at + 4 + UnpackH(z, at) > Len(z)
                  THEN [status |-> "error", out |-> out, bit |-> i]
                ELSE [status |-> "ok",
                      out |-> out \o Slice(z, at + 4, at + 4 + UnpackH(z, at)),
                      bit |-> 8 * (at + 4 + UnpackH(z, at))]
          ELSE IF btype = 1 THEN InflateFixed(z, i + 3, out)
          ELSE IF btype = 2 THEN [status |-> "unmodelled", out |-> out, bit |-> i]
          ELSE [status |-> "error", out |-> out, bit |-> i]
    IN  IF blk.status = "ok" /\ final = 0 THEN InflateBlocks(z, blk.bit, blk.out) ELSE blk

\* zlib.decompress(z): the zlib header check, the blocks, the Adler-32 check;
\* bytes after the checksum are ignored
Inflate(z) ==
  IF Len(z) < 2 THEN [status |-> "error", out |-> <<>>]
  ELSE IF (At(z, 0) % 16) # 8 \/ (At(z, 0) \div 16) > 7
          \/ (256 * At(z, 0) + At(z, 1)) % 31 # 0 \/ (At(z, 1) \div 32) % 2 = 1
    THEN [status |-> "error", out |-> <<>>]
  ELSE LET r   == InflateBlocks(z, 16, <<>>)
           end == (r.bit + 7) \div 8
       IN  IF r.status # "ok" THEN [status |-> r.status, out |-> <<>>]
           ELSE IF end + 4 > Len(z) \/ Slice(z, end, end + 4) # Adler32(r.out)
             THEN [status |-> "error", out |-> <<>>]
           ELSE [status |-> "ok", out |-> r.out]

(***************************************************************************)
(* _write_bgcode: constants, the block serializer and the container.       *)
(***************************************************************************)
MAGIC == <<71, 67, 68, 69>>

VERSION == 1

CKSUM_CRC32 == 1

BLK_FILE_META == 0

BLK_GCODE == 1

BLK_SLICER_META == 2

BLK_PRINTER_META == 3

BLK_PRINT_META == 4

BLK_THUMBNAIL == 5

THUMB_FMT_PNG == 0

COMP_NONE == 0

COMP_DEFLATE == 1

ENC_INI == 0

ENC_RAW == 0

\* a variant of _block: the checksum is chained over header and payload only
BlockCrcSkipsParams(btype, params, data, compress) ==
  LET payload == IF compress THEN Deflate(data) ELSE data
      hdr     == IF compress
                   THEN PackH(btype) \o PackH(COMP_DEFLATE) \o PackI(Len(data))
                        \o PackI(Len(payload))
                   ELSE PackH(btype) \o PackH(COMP_NONE) \o PackI(Len(data))
  IN  hdr \o params \o payload \o Crc32(payload, Crc32Of(hdr))

\* _block(btype, params, data, compress)
Block(btype, params, data, compress) ==
  LET payload == IF compress THEN Deflate(data) ELSE data
      hdr     == IF compress
                   THEN PackH(btype) \o PackH(COMP_DEFLATE) \o PackI(Len(data))
                        \o PackI(Len(payload))
                   ELSE PackH(btype) \o PackH(COMP_NONE) \o PackI(Len(data))
      cksum   == Crc32(payload, Crc32(params, Crc32Of(hdr)))
  IN  hdr \o params \o payload \o cksum

\* "".join(f"{k}={v}\n" ...) of a one-entry dict, as code points
IniLine(k, v) == k \o <<61>> \o v \o <<10>>

\* _meta_block(btype, fields); ini is the joined text of fields, "" for None
MetaBlock(btype, ini) == Block(btype, PackH(ENC_INI), Utf8Encode(ini), FALSE)

\* a variant of ThumbBlock: height is packed before width
ThumbBlockHeightFirst(tw, th, png_bytes) ==
  Block(BLK_THUMBNAIL, PackH(THUMB_FMT_PNG) \o PackH(th) \o PackH(tw), png_bytes, FALSE)

\* _thumb_block(tw, th, png_bytes)
ThumbBlock(tw, th, png_bytes) ==
  Block(BLK_THUMBNAIL, PackH(THUMB_FMT_PNG) \o PackH(tw) \o PackH(th), png_bytes, FALSE)

\* "Producer" and "generator", the keys, and "prusa_pa_calibration", their value
ProducerKey == <<80, 114, 111, 100, 117, 99, 101, 114>>

GeneratorKey == <<103, 101, 110, 101, 114, 97, 116, 111, 114>>

ProducerName == <<112, 114, 117, 115, 97, 95, 112, 97, 95, 99, 97, 108, 105, 98,
                  114, 97, 116, 105, 111, 110>>

\* file_hdr = MAGIC + struct.pack("<IH", VERSION, CKSUM_CRC32)
FileHeader == MAGIC \o PackI(VERSION) \o PackH(CKSUM_CRC32)

\* gcode_blk
GcodeBlock(gcode_text) == Block(BLK_GCODE, PackH(ENC_RAW), Utf8Encode(gcode_text), FALSE)

\* a variant of WrittenBlocks: the GCode block is put right after the thumbnails
WrittenBlocksGcodeEarly(gcode_text, thumbs) ==
  <<MetaBlock(BLK_FILE_META, IniLine(ProducerKey, ProducerName)),
    MetaBlock(BLK_PRINTER_META, <<>>)>>
  \o [i \in 1..Len(thumbs) |-> ThumbBlock(thumbs[i].w, thumbs[i].h, thumbs[i].png)]
  \o <<GcodeBlock(gcode_text),
       MetaBlock(BLK_PRINT_META, IniLine(GeneratorKey, ProducerName)),
       MetaBlock(BLK_SLICER_META, <<>>)>>

\* the blocks of content, in the order of lines 366-374
WrittenBlocks(gcode_text, thumbs) ==
  <<MetaBlock(BLK_FILE_META, IniLine(ProducerKey, ProducerName)),
    MetaBlock(BLK_PRINTER_META, <<>>)>>
  \o [i \in 1..Len(thumbs) |-> ThumbBlock(thumbs[i].w, thumbs[i].h, thumbs[i].png)]
  \o <<MetaBlock(BLK_PRINT_META, IniLine(GeneratorKey, ProducerName)),
       MetaBlock(BLK_SLICER_META, <<>>),
       GcodeBlock(gcode_text)>>

\* content, the bytes _write_bgcode writes
Content(gcode_text, thumbs) == FileHeader \o Concat(WrittenBlocks(gcode_text, thumbs))

\* lines 376-380: a str path is opened and written, any other dest has its
\* write method called; a pathlib.Path has none
DestError(dest) == IF dest \in {"str", "file"} THEN "" ELSE "AttributeError"

\* the exception _write_bgcode raises instead of writing, "" when it writes:
\* gcode_text.encode (line 363) comes before the struct.pack of the thumbnails
WriteError(gcode_text, thumbs) ==
  IF ~Encodable(gcode_text) THEN "UnicodeEncodeError"
  ELSE IF \E i \in 1..Len(thumbs) : ~PackableH(thumbs[i].w) \/ ~PackableH(thumbs[i].h)
    THEN "struct.error"
  ELSE ""

(***************************************************************************)
(* pa_cal.py's own _write_bgcode: the encoding parameter is part of the    *)
(* payload, and the GCode block is written with compress=True.             *)
(***************************************************************************)
\* pa_cal.py _deflate(data): wbits=-15, one final fixed-Huffman block, no wrapper
RawDeflate(data) == FixedBlock(data)

\* pa_cal.py _block(btype, payload, compress)
PaCalBlock(btype, payload, compress) ==
  LET data  == IF compress THEN RawDeflate(payload) ELSE payload
      hdr   == IF compress
                 THEN PackH(btype) \o PackH(COMP_DEFLATE) \o PackI(Len(payload))
                      \o PackI(Len(data))
                 ELSE PackH(btype) \o PackH(COMP_NONE) \o PackI(Len(payload))
      cksum == Crc32(data, Crc32Of(hdr))
  IN  hdr \o data \o cksum

\* pa_cal.py _meta_block(btype, fields); ini is the joined text of fields
PaCalMetaBlock(btype, ini) == PaCalBlock(btype, PackH(ENC_INI) \o Utf8Encode(ini), FALSE)

\* "pa_cal.py", the value of "generator"
PaCalName == <<112, 97, 95, 99, 97, 108, 46, 112, 121>>

\* meta_blks and gcode_blk of pa_cal.py, in the order of content
PaCalBlocks(gcode_text) ==
  <<PaCalMetaBlock(BLK_PRINTER_META, <<>>),
    PaCalMetaBlock(BLK_PRINT_META, IniLine(GeneratorKey, PaCalName)),
    PaCalBlock(BLK_GCODE, PackH(ENC_RAW) \o Utf8Encode(gcode_text), TRUE)>>

\* content, the bytes pa_cal.py's _write_bgcode writes
PaCalContent(gcode_text) == FileHeader \o Concat(PaCalBlocks(gcode_text))

(***************************************************************************)
(* bgcode_to_ascii: the checks of one loop iteration, in source order.     *)
(* Every raise of the function is a ValueError; kind names the raise site. *)
(* An unpack_from past the end of the buffer would raise struct.error.     *)
(***************************************************************************)
\* an exception raised while the block at offset pos is handled
Raise(kind, pos) ==
  [kind |-> kind, offset |-> pos, next |-> pos, gcode |-> FALSE, text |-> <<>>,
   computed |-> <<>>, stored |-> <<>>]

\* a variant of Advance: the offset is left at the checksum of the block
AdvanceToChecksum(pos, next, gcode, text) ==
  [kind |-> "advance", offset |-> pos, next |-> next - 4, gcode |-> gcode, text |-> text,
   computed |-> <<>>, stored |-> <<>>]

\* the iteration completes: pos = payload_end + 4, and parts.append(text) if gcode
Advance(pos, next, gcode, text) ==
  [kind |-> "advance", offset |-> pos, next |-> next, gcode |-> gcode, text |-> text,
   computed |-> <<>>, stored |-> <<>>]

\* a variant of TooShort: only the magic is required to be present
TooShortForMagic(data) == Len(data) < 4

\* len(data) < 10
TooShort(data) == Len(data) < 10

\* a variant of BadMagic: the whole file header has to be the one written
BadMagicOrVersion(data) == Slice(data, 0, 10) # MAGIC \o <<1, 0, 0, 0, 1, 0>>

\* data[:4] != MAGIC
BadMagic(data) == Slice(data, 0, 4) # MAGIC

\* pos + 8 > len(data)
HeaderTruncated(data, pos) == pos + 8 > Len(data)

\* a variant of LongHeaderTruncated: a header announcing no uncompressed bytes
\* is refused as well
LongHeaderTruncatedOrEmpty(data, pos) == pos + 12 > Len(data) \/ UnpackI(data, pos + 4) = 0

\* pos + 12 > len(data)
LongHeaderTruncated(data, pos) == pos + 12 > Len(data)

\* a variant of HasCompressedSize: only Deflate is recognised
HasCompressedSizeDeflateOnly(comp) == comp = COMP_DEFLATE

\* comp in (COMP_DEFLATE, 2, 3): the compressions whose header carries compressed_size
HasCompressedSize(comp) == comp \in {COMP_DEFLATE, 2, 3}

\* params_len = 6 if btype == BLK_THUMBNAIL else 2
ParamsLen(btype) == IF btype = BLK_THUMBNAIL THEN 6 ELSE 2

\* a variant of PayloadTruncated: the four checksum bytes are not counted
PayloadTruncatedNoCrc(data, payload_end) == payload_end > Len(data)

\* payload_end + 4 > len(data)
PayloadTruncated(data, payload_end) == payload_end + 4 > Len(data)

\* a variant of ComputedCrc: the block header is left out of the checksum
ComputedCrcSkipHeader(data, pos, payload_end) == Crc32Of(Slice(data, pos + 8, payload_end))

\* a variant of ComputedCrc: the stored value is taken for the computed one
ComputedCrcTrustStored(data, pos, payload_end) == Slice(data, payload_end, payload_end + 4)

\* computed_crc = zlib.crc32(data[pos:payload_end]) & 0xFFFFFFFF
ComputedCrc(data, pos, payload_end) == Crc32Of(Slice(data, pos, payload_end))

\* a variant of GcodePart: the encoding parameter is not looked at
GcodePartAnyEncoding(data, pos, comp, params_start, payload_start, payload_end) ==
  LET payload == Slice(data, payload_start, payload_end)
      inf     == Inflate(payload)
  IN  IF comp # COMP_NONE /\ comp # COMP_DEFLATE
        THEN Raise("UnsupportedCompression", pos)
      ELSE IF comp = COMP_DEFLATE /\ inf.status # "ok"
        THEN Raise("DeflateFailed", pos)
      ELSE LET raw == IF comp = COMP_NONE THEN payload ELSE inf.out
           IN  IF ~Decodable(raw) THEN Raise("UnicodeDecodeError", pos)
               ELSE Advance(pos, payload_end + 4, TRUE, Utf8Decode(raw))

\* a variant of GcodePart: zlib.decompress is called without the try/except, so
\* a corrupt stream lets zlib.error out of the function
GcodePartUncaughtZlib(data, pos, comp, params_start, payload_start, payload_end) ==
  LET enc     == UnpackH(data, params_start)
      payload == Slice(data, payload_start, payload_end)
      inf     == Inflate(payload)
  IN  IF comp # COMP_NONE /\ comp # COMP_DEFLATE
        THEN Raise("UnsupportedCompression", pos)
      ELSE IF comp = COMP_DEFLATE /\ inf.status # "ok"
        THEN Raise("zlib.error", pos)
      ELSE IF enc # ENC_RAW THEN Raise("UnsupportedEncoding", pos)
      ELSE LET raw == IF comp = COMP_NONE THEN payload ELSE inf.out
           IN  IF ~Decodable(raw) THEN Raise("UnicodeDecodeError", pos)
               ELSE Advance(pos, payload_end + 4, TRUE, Utf8Decode(raw))

\* lines 472-497: the GCode block's payload becomes text
GcodePart(data, pos, comp, params_start, payload_start, payload_end) ==
  IF ~CanUnpack(data, params_start, 2) THEN Raise("struct.error", pos)
  ELSE
    LET enc     == UnpackH(data, params_start)
        payload == Slice(data, payload_start, payload_end)
        inf     == Inflate(payload)
    IN  IF comp # COMP_NONE /\ comp # COMP_DEFLATE
          THEN Raise("UnsupportedCompression", pos)
        ELSE IF comp = COMP_DEFLATE /\ inf.status = "error"
          THEN Raise("DeflateFailed", pos)
        ELSE IF comp = COMP_DEFLATE /\ inf.status # "ok"
          THEN Raise("unmodelled", pos)
        ELSE IF enc # ENC_RAW THEN Raise("UnsupportedEncoding", pos)
        ELSE LET raw == IF comp = COMP_NONE THEN payload ELSE inf.out
             IN  IF ~Decodable(raw) THEN Raise("UnicodeDecodeError", pos)
                 ELSE Advance(pos, payload_end + 4, TRUE, Utf8Decode(raw))

\* a variant of BlockBody: only GCode blocks have their checksum compared
BlockBodyCrcOfGcodeOnly(data, pos, btype, comp, comp_size, hdr_len) ==
  LET params_start  == pos + hdr_len
      payload_start == params_start + ParamsLen(btype)
      payload_end   == payload_start + comp_size
  IN  IF PayloadTruncated(data, payload_end) THEN Raise("TruncatedPayload", pos)
      ELSE IF btype # BLK_GCODE THEN Advance(pos, payload_end + 4, FALSE, <<>>)
      ELSE IF ComputedCrc(data, pos, payload_end) # Slice(data, payload_end, payload_end + 4)
        THEN Raise("CrcMismatch", pos)
      ELSE GcodePart(data, pos, comp, params_start, payload_start, payload_end)

\* a variant of BlockBody: a GCode block is decompressed and decoded before its
\* checksum is compared
BlockBodyDecodeFirst(data, pos, btype, comp, comp_size, hdr_len) ==
  LET params_start  == pos + hdr_len
      payload_start == params_start + ParamsLen(btype)
      payload_end   == payload_start + comp_size
      decoded       == GcodePart(data, pos, comp, params_start, payload_start, payload_end)
  IN  IF PayloadTruncated(data, payload_end) THEN Raise("TruncatedPayload", pos)
      ELSE IF btype = BLK_GCODE /\ decoded.kind # "advance" THEN decoded
      ELSE IF ComputedCrc(data, pos, payload_end) # Slice(data, payload_end, payload_end + 4)
        THEN Raise("CrcMismatch", pos)
      ELSE IF btype = BLK_GCODE THEN decoded
      ELSE Advance(pos, payload_end + 4, FALSE, <<>>)

\* lines 451-499, once the header fields are read
BlockBody(data, pos, btype, comp, comp_size, hdr_len) ==
  LET params_start  == pos + hdr_len
      payload_start == params_start + ParamsLen(btype)
      payload_end   == payload_start + comp_size
  IN  IF PayloadTruncated(data, payload_end) THEN Raise("TruncatedPayload", pos)
      ELSE IF ~CanUnpack(data, payload_end, 4) THEN Raise("struct.error", pos)
      ELSE
        LET stored_crc   == Slice(data, payload_end, payload_end + 4)
            computed_crc == ComputedCrc(data, pos, payload_end)
        IN  IF computed_crc # stored_crc
              THEN [Raise("CrcMismatch", pos) EXCEPT !.computed = computed_crc,
                                                     !.stored = stored_crc]
            ELSE IF btype = BLK_GCODE
              THEN GcodePart(data, pos, comp, params_start, payload_start, payload_end)
            ELSE Advance(pos, payload_end + 4, FALSE, <<>>)

\* lines 434-499: one iteration of the while loop, for the block at offset pos
ParseBlock(data, pos) ==
  IF HeaderTruncated(data, pos) THEN Raise("TruncatedHeader", pos)
  ELSE IF ~CanUnpack(data, pos, 8) THEN Raise("struct.error", pos)
  ELSE
    LET btype       == UnpackH(data, pos)
        comp        == UnpackH(data, pos + 2)
        uncomp_size == UnpackI(data, pos + 4)
    IN  IF comp = COMP_NONE THEN BlockBody(data, pos, btype, comp, uncomp_size, 8)
        ELSE IF HasCompressedSize(comp) THEN
          IF LongHeaderTruncated(data, pos) THEN Raise("TruncatedHeader", pos)
          ELSE IF ~CanUnpack(data, pos + 8, 4) THEN Raise("struct.error", pos)
          ELSE BlockBody(data, pos, btype, comp, UnpackI(data, pos + 8), 12)
        ELSE Raise("UnknownCompression", pos)

\* the class of the exception behind each raise of bgcode_to_ascii: the raise
\* statements of lines 421-502 name ValueError, zlib.error is caught and
\* re-raised as ValueError (481-484), raw.decode (497) raises
\* UnicodeDecodeError, and an unpack_from past the buffer raises struct.error
ExceptionClass(kind) ==
  IF kind \in {"DataTooShort", "BadMagic", "TruncatedHeader", "UnknownCompression",
               "TruncatedPayload", "CrcMismatch", "DeflateFailed",
               "UnsupportedCompression", "UnsupportedEncoding", "NoGCodeBlocks"}
    THEN "ValueError"
  ELSE kind

\* UnicodeDecodeError is a subclass of ValueError; struct.error and zlib.error
\* are not
IsValueError(class) == class \in {"ValueError", "UnicodeDecodeError"}

\* no call has finished yet
NoResult == Raise("none", 0)

\* return "".join(parts)
Returned(text) == [Raise("ok", 0) EXCEPT !.text = text]

RECURSIVE DecodeLoopGcodeLast(_, _, _)
\* a variant of DecodeLoop: a block that follows a GCode block and is not one
\* itself is refused, as if GCode blocks had to come last
DecodeLoopGcodeLast(data, pos, parts) ==
  IF ~(pos < Len(data))
    THEN IF parts = <<>> THEN Raise("NoGCodeBlocks", pos) ELSE Returned(Concat(parts))
  ELSE LET r == ParseBlock(data, pos)
       IN  IF r.kind # "advance" THEN r
           ELSE IF parts # <<>> /\ ~r.gcode THEN Raise("UnexpectedBlock", pos)
           ELSE DecodeLoopGcodeLast(data, r.next,
                                    IF r.gcode THEN Append(parts, r.text) ELSE parts)

RECURSIVE DecodeLoop(_, _, _)
\* lines 433-504: the while loop from offset pos on, and what follows it
DecodeLoop(data, pos, parts) ==
  IF ~(pos < Len(data))
    THEN IF parts = <<>> THEN Raise("NoGCodeBlocks", pos) ELSE Returned(Concat(parts))
  ELSE LET r == ParseBlock(data, pos)
       IN  IF r.kind = "advance"
             THEN DecodeLoop(data, r.next, IF r.gcode THEN Append(parts, r.text) ELSE parts)
             ELSE r

\* bgcode_to_ascii(data) as one call: the result it returns or the error it raises
BgcodeToAscii(data) ==
  IF TooShort(data) THEN Raise("DataTooShort", 0)
  ELSE IF BadMagic(data) THEN Raise("BadMagic", 0)
  ELSE DecodeLoop(data, 10, <<>>)

(***************************************************************************)
(* _make_png: a minimal PNG (signature, IHDR, IDAT, IEND) from a flat,     *)
(* row-major list of (r, g, b) tuples.                                     *)
(***************************************************************************)
\* struct.pack(">I", v), for 0 <= v < 2^31; a negative v raises struct.error
PackIBE(v) == <<v \div 16777216, (v \div 65536) % 256, (v \div 256) % 256, v % 256>>

\* struct.pack(">I", _crc32(data))
Crc32BE(bytes) ==
  LET c == Crc32Of(bytes) IN <<c[4], c[3], c[2], c[1]>>

PNG_SIGNATURE == <<137, 80, 78, 71, 13, 10, 26, 10>>

\* b"IHDR"
TAG_IHDR == <<73, 72, 68, 82>>

\* b"IDAT"
TAG_IDAT == <<73, 68, 65, 84>>

\* b"IEND"
TAG_IEND == <<73, 69, 78, 68>>

\* _chunk with the CRC32 taken over the data alone
ChunkCrcOfData(tag, bytes) == PackIBE(Len(bytes)) \o tag \o bytes \o Crc32BE(bytes)

\* _chunk(tag, data)
Chunk(tag, bytes) == PackIBE(Len(bytes)) \o tag \o bytes \o Crc32BE(tag \o bytes)

\* struct.pack(">IIBBBBB", width, height, 8, 2, 0, 0, 0)
Ihdr(width, height) == PackIBE(width) \o PackIBE(height) \o <<8, 2, 0, 0, 0>>

\* a channel cut off at 0 and 255
Clamp8(v) == IF v < 0 THEN 0 ELSE IF v > 255 THEN 255 ELSE v

\* v & 0xFF on Python's two's-complement integers: for a negative v the low
\* byte is the complement of the low byte of ~v = -v - 1
Mask8(v) == IF v >= 0 THEN v % 256 ELSE 255 - ((-v - 1) % 256)

\* bytes([r & 0xFF, g & 0xFF, b & 0xFF])
PixelBytes(p) == <<Mask8(p[1]), Mask8(p[2]), Mask8(p[3])>>

RECURSIVE RowBytes(_, _, _, _)
\* the inner loop over x from column x on: the pixels of row y
RowBytes(width, pixels, y, x) ==
  IF x >= width THEN <<>>
  ELSE PixelBytes(pixels[y * width + x + 1]) \o RowBytes(width, pixels, y, x + 1)

RECURSIVE RawRows(_, _, _, _)
\* the outer loop over y from row y on: filter byte 0, then the row
RawRows(width, height, pixels, y) ==
  IF y >= height THEN <<>>
  ELSE <<0>> \o RowBytes(width, pixels, y, 0) \o RawRows(width, height, pixels, y + 1)

\* what _make_png raises: struct.error when ">I" is given a negative number,
\* IndexError when pixels is shorter than width * height; "" when it returns
MakePngError(width, height, pixels) ==
  IF width < 0 \/ height < 0 THEN "struct.error"
  ELSE IF Len(pixels) < width * height THEN "IndexError"
  ELSE ""

\* _make_png(width, height, pixels)
MakePng(width, height, pixels) ==
  PNG_SIGNATURE \o Chunk(TAG_IHDR, Ihdr(width, height))
  \o Chunk(TAG_IDAT, Deflate(RawRows(width, height, pixels, 0)))
  \o Chunk(TAG_IEND, <<>>)

(***************************************************************************)
(* Inputs.  The encoder takes a text and a thumbnail list; the decoder     *)
(* takes any byte buffer: an encoder output, a hand-made container, or one *)
(* of these with one byte replaced or cut short.                           *)
(***************************************************************************)
MaxTextLen == 2

MaxThumbs == 1

MaxBlocks == 2

MaxDamagedTextLen == 1

\* "\n", "G", e-acute (2 bytes in UTF-8), the euro sign (3 bytes), a lone surrogate
Chars == {10, 71, 233, 8364, 55296}

SeqsUpTo(S, n) == UNION {[1..k -> S] : k \in 0..n}

Texts == SeqsUpTo(Chars, MaxTextLen)

Thumbs ==
  {[w |-> 16, h |-> 24, png |-> <<137, 80>>], [w |-> 300, h |-> 2, png |-> <<>>],
   [w |-> 65536, h |-> 1, png |-> <<1>>]}

ThumbLists == SeqsUpTo(Thumbs, MaxThumbs)

\* the inputs whose containers are then damaged
DamagedTexts == SeqsUpTo({10, 71}, MaxDamagedTextLen)

DamagedThumbLists == {<<>>, <<[w |-> 16, h |-> 24, png |-> <<137, 80>>]>>}

\* the values a damaged byte is replaced with
DamageValues == {0, 1, 2, 3, 4, 5, 255}

NoDamage == [kind |-> "none", at |-> 0, value |-> 0]

(***************************************************************************)
(* Hand-made containers: a block is described by its type, compression,    *)
(* encoding parameter, stored payload and whether its CRC32 is the right   *)
(* one; it is laid out as the format prescribes (a 12-byte header with     *)
(* compressed_size when the compression is not None).                      *)
(***************************************************************************)
CraftParams(b) ==
  IF b.btype = BLK_THUMBNAIL THEN PackH(b.enc) \o PackH(16) \o PackH(24) ELSE PackH(b.enc)

CraftHeader(b) ==
  IF b.comp = COMP_NONE
    THEN PackH(b.btype) \o PackH(b.comp) \o PackI(Len(b.payload))
    ELSE PackH(b.btype) \o PackH(b.comp) \o PackI(b.usize) \o PackI(Len(b.payload))

CraftBlock(b) ==
  LET span == CraftHeader(b) \o CraftParams(b) \o b.payload
      crc  == Crc32Of(span)
  IN  span \o (IF b.crc_ok THEN crc ELSE <<255 - crc[1], crc[2], crc[3], crc[4]>>)

CraftBlocks(bl) == [i \in 1..Len(bl) |-> CraftBlock(bl[i])]

CraftContainer(bl) == FileHeader \o Concat(CraftBlocks(bl))

RECURSIVE TotalLen(_, _)
\* the length of the first n byte strings of bs together
TotalLen(bs, n) == IF n = 0 THEN 0 ELSE TotalLen(bs, n - 1) + Len(bs[n])

\* where the blocks bs lie in the container made of them: block i occupies the
\* offsets start..(end - 1), the last four of which hold its checksum
LayoutOf(bs) ==
  [i \in 1..Len(bs) |->
     [start |-> 10 + TotalLen(bs, i - 1), end |-> 10 + TotalLen(bs, i),
      btype |-> UnpackH(bs[i], 0)]]

Blk(btype, comp, enc, usize, payload, crc_ok) ==
  [btype |-> btype, comp |-> comp, enc |-> enc, usize |-> usize, payload |-> payload,
   crc_ok |-> crc_ok]

\* well-formed blocks: metadata, thumbnail, raw and Deflate G-code, and a
\* Heatshrink-compressed metadata block
GoodBlocks ==
  {Blk(BLK_PRINTER_META, COMP_NONE, ENC_INI, 0, <<>>, TRUE),
   Blk(BLK_THUMBNAIL, COMP_NONE, THUMB_FMT_PNG, 0, <<137>>, TRUE),
   Blk(BLK_GCODE, COMP_NONE, ENC_RAW, 0, <<71>>, TRUE),
   Blk(BLK_GCODE, COMP_NONE, ENC_RAW, 0, <<>>, TRUE),
   Blk(BLK_GCODE, COMP_DEFLATE, ENC_RAW, 1, Deflate(<<10>>), TRUE)}

\* blocks that are damaged or that the decoder does not support
OddBlocks ==
  {Blk(BLK_PRINT_META, COMP_NONE, ENC_INI, 0, <<97>>, FALSE),
   Blk(BLK_THUMBNAIL, COMP_NONE, THUMB_FMT_PNG, 0, <<137>>, FALSE),
   Blk(BLK_GCODE, COMP_NONE, ENC_RAW, 0, <<71>>, FALSE),
   Blk(BLK_SLICER_META, 2, ENC_INI, 1, <<97>>, TRUE),
   Blk(BLK_SLICER_META, 4, ENC_INI, 1, <<97>>, TRUE),
   Blk(BLK_GCODE, 2, ENC_RAW, 1, <<71>>, TRUE),
   Blk(BLK_GCODE, 3, ENC_RAW, 1, <<71>>, FALSE),
   Blk(BLK_GCODE, COMP_NONE, 1, 0, <<71>>, TRUE),
   Blk(BLK_GCODE, COMP_DEFLATE, 1, 1, Deflate(<<71>>), TRUE),
   Blk(BLK_GCODE, COMP_DEFLATE, 1, 1, <<120, 156, 7>>, TRUE),
   Blk(BLK_GCODE, COMP_DEFLATE, ENC_RAW, 1, <<120, 156, 7>>, TRUE),
   Blk(BLK_GCODE, 3, 2, 1, <<71>>, TRUE),
   Blk(BLK_GCODE, COMP_NONE, ENC_RAW, 0, <<255>>, TRUE),
   Blk(BLK_PRINTER_META, COMP_NONE, 1, 0, <<255>>, TRUE)}

CraftLists == SeqsUpTo(GoodBlocks \cup OddBlocks, MaxBlocks)

\* well-formed containers of metadata and raw G-code blocks, to be damaged
SoundBlocks ==
  {Blk(BLK_PRINTER_META, COMP_NONE, ENC_INI, 0, <<>>, TRUE),
   Blk(BLK_GCODE, COMP_NONE, ENC_RAW, 0, <<71>>, TRUE),
   Blk(BLK_GCODE, COMP_NONE, ENC_RAW, 0, <<10>>, TRUE)}

SoundLists == SeqsUpTo(SoundBlocks, MaxBlocks)

(***************************************************************************)
(* State.                                                                   *)
(***************************************************************************)
VARIABLES
  gcode_text,   \* _write_bgcode's gcode_text, a sequence of code points
  thumbnails,   \* _write_bgcode's thumbnails
  blocks,       \* the descriptors of a hand-made container, <<>> otherwise
  content,      \* the bytes _write_bgcode wrote
  layout,       \* where each block lies in the buffer as it was made
  data,         \* bgcode_to_ascii's argument
  damage,       \* what was done to data after it was written
  pc,           \* "start", "written", "loop", "returned", "raised", "write_raised",
                \* "raster", "png_made", "png_raised", "block"
  pos,          \* bgcode_to_ascii's read offset
  parts,        \* bgcode_to_ascii's list of decoded texts
  result,       \* what the call returned or raised
  dest,         \* _write_bgcode's dest: "str", "Path" or "file" (a binary file object)
  raster,       \* _make_png's arguments width, height and pixels
  png,          \* the bytes _make_png returned
  block_args,   \* _block's arguments btype, params, data and compress
  gen,          \* a BaseGenerator: its retraction state and the lines it emitted
  canvas,       \* a _Raster: its size and its pixel list
  upload,       \* _upload_prusaconnect: what was read, sent and saved
  wrote         \* the byte strings dest.write was given, and the integer returned

vars ==
  <<gcode_text, thumbnails, blocks, content, layout, data, damage, pc, pos, parts, result,
    dest, raster, png, block_args, gen, canvas, upload, wrote>>

\* nothing was written to dest and nothing returned
NoWrite == [writes |-> <<>>, returned |-> -1]

\* lines 376-382 with the file header and the blocks written one after the other
WriteInPieces(bytes) ==
  [writes |-> <<Slice(bytes, 0, 10), Slice(bytes, 10, Len(bytes))>>, returned |-> Len(bytes)]

\* lines 376-382: f.write(content) or dest.write(content), then return len(content)
WriteOnce(bytes) == [writes |-> <<bytes>>, returned |-> Len(bytes)]

\* the variables of the parts of the program that a behaviour does not use
Unused(v) == v = <<>>

\* no image is being made
NoRaster == [width |-> 0, height |-> 0, pixels |-> <<>>]

InitWith(texts, thumblists, dests) ==
  /\ gcode_text \in texts
  /\ thumbnails \in thumblists
  /\ dest \in dests
  /\ raster = NoRaster
  /\ png = <<>>
  /\ wrote = NoWrite
  /\ Unused(block_args) /\ Unused(gen) /\ Unused(canvas) /\ Unused(upload)
  /\ blocks = <<>>
  /\ content = <<>>
  /\ layout = <<>>
  /\ data = <<>>
  /\ damage = NoDamage
  /\ pc = "start"
  /\ pos = 0
  /\ parts = <<>>
  /\ result = NoResult

\* the bytes go to a binary file object, as in handle_output's upload path
InitOf(texts, thumblists) == InitWith(texts, thumblists, {"file"})

Init == InitOf(Texts, ThumbLists)

InitDamaged == InitOf(DamagedTexts, DamagedThumbLists)

InitCraftOf(lists) ==
  /\ gcode_text = <<>>
  /\ thumbnails = <<>>
  /\ blocks \in lists
  /\ content = <<>>
  /\ layout = LayoutOf(CraftBlocks(blocks))
  /\ data = CraftContainer(blocks)
  /\ damage = NoDamage
  /\ pc = "written"
  /\ pos = 0
  /\ parts = <<>>
  /\ result = NoResult
  /\ dest = "file"
  /\ raster = NoRaster
  /\ png = <<>>
  /\ wrote = NoWrite
  /\ Unused(block_args) /\ Unused(gen) /\ Unused(canvas) /\ Unused(upload)

InitCraft == InitCraftOf(CraftLists)

InitCraftDamaged == InitCraftOf(SoundLists)

(***************************************************************************)
(* Actions.                                                                 *)
(***************************************************************************)

\* a variant of WriteBgcode: the Producer entry carries a digit that differs from
\* call to call, as a clock reading would
WriteBgcodeStamped ==
  /\ pc = "start"
  /\ IF WriteError(gcode_text, thumbnails) # ""
       THEN /\ pc' = "write_raised"
            /\ result' = Raise(WriteError(gcode_text, thumbnails), 0)
            /\ UNCHANGED <<content, layout, data, wrote>>
     ELSE IF DestError(dest) # ""
       THEN /\ pc' = "write_raised"
            /\ result' = Raise(DestError(dest), 0)
            /\ UNCHANGED <<content, layout, data, wrote>>
       ELSE \E stamp \in {48, 49} :
              LET bs == <<MetaBlock(BLK_FILE_META,
                                    IniLine(ProducerKey, Append(ProducerName, stamp)))>>
                        \o Tail(WrittenBlocks(gcode_text, thumbnails))
              IN  /\ pc' = "written"
                  /\ content' = FileHeader \o Concat(bs)
                  /\ layout' = LayoutOf(bs)
                  /\ data' = FileHeader \o Concat(bs)
                  /\ wrote' = WriteOnce(FileHeader \o Concat(bs))
                  /\ UNCHANGED result
  /\ UNCHANGED <<block_args, gen, canvas, upload, dest, raster, png, gcode_text, thumbnails, blocks, damage, pos, parts>>

\* _write_bgcode(gcode_text, dest, thumbnails); dest's bytes are then decoded
WriteBgcode ==
  /\ pc = "start"
  /\ IF WriteError(gcode_text, thumbnails) # ""
       THEN /\ pc' = "write_raised"
            /\ result' = Raise(WriteError(gcode_text, thumbnails), 0)
            /\ UNCHANGED <<content, layout, data, wrote>>
     ELSE IF DestError(dest) # ""
       THEN /\ pc' = "write_raised"
            /\ result' = Raise(DestError(dest), 0)
            /\ UNCHANGED <<content, layout, data, wrote>>
       ELSE /\ pc' = "written"
            /\ content' = Content(gcode_text, thumbnails)
            /\ layout' = LayoutOf(WrittenBlocks(gcode_text, thumbnails))
            /\ data' = Content(gcode_text, thumbnails)
            /\ wrote' = WriteOnce(Content(gcode_text, thumbnails))
            /\ UNCHANGED result
  /\ UNCHANGED <<block_args, gen, canvas, upload, dest, raster, png, gcode_text, thumbnails, blocks, damage, pos, parts>>

\* pa_cal.py's _write_bgcode(gcode_text, dest): lines 183-250
PaCalWriteBgcode ==
  /\ pc = "start_pa_cal"
  /\ IF ~Encodable(gcode_text)
       THEN /\ pc' = "write_raised"
            /\ result' = Raise("UnicodeEncodeError", 0)
            /\ UNCHANGED <<content, layout, data, wrote>>
     ELSE IF DestError(dest) # ""
       THEN /\ pc' = "write_raised"
            /\ result' = Raise(DestError(dest), 0)
            /\ UNCHANGED <<content, layout, data, wrote>>
       ELSE /\ pc' = "written_pa_cal"
            /\ content' = PaCalContent(gcode_text)
            /\ layout' = LayoutOf(PaCalBlocks(gcode_text))
            /\ data' = PaCalContent(gcode_text)
            /\ wrote' = WriteOnce(PaCalContent(gcode_text))
            /\ UNCHANGED result
  /\ UNCHANGED <<block_args, gen, canvas, upload, dest, raster, png, gcode_text, thumbnails, blocks, damage, pos, parts>>

\* one byte of the buffer is replaced by a different value
FlipByte ==
  /\ pc = "written"
  /\ damage = NoDamage
  /\ \E i \in 0..(Len(data) - 1), v \in DamageValues :
       /\ v # At(data, i)
       /\ data' = [data EXCEPT ![i + 1] = v]
       /\ damage' = [kind |-> "byte", at |-> i, value |-> v]
  /\ UNCHANGED <<wrote, block_args, gen, canvas, upload, dest, raster, png, gcode_text, thumbnails, blocks, content, layout, pc, pos, parts, result>>

\* the buffer is cut to a proper prefix
Truncate ==
  /\ pc = "written"
  /\ damage = NoDamage
  /\ \E n \in 0..(Len(data) - 1) :
       /\ data' = Slice(data, 0, n)
       /\ damage' = [kind |-> "cut", at |-> n, value |-> 0]
  /\ UNCHANGED <<wrote, block_args, gen, canvas, upload, dest, raster, png, gcode_text, thumbnails, blocks, content, layout, pc, pos, parts, result>>

\* bgcode_to_ascii, lines 420-431: the file header
DecodeHeader ==
  /\ pc = "written"
  /\ IF TooShort(data)
       THEN pc' = "raised" /\ result' = Raise("DataTooShort", 0) /\ UNCHANGED <<pos, parts>>
     ELSE IF BadMagic(data)
       THEN pc' = "raised" /\ result' = Raise("BadMagic", 0) /\ UNCHANGED <<pos, parts>>
     ELSE pc' = "loop" /\ pos' = 10 /\ parts' = <<>> /\ UNCHANGED result
  /\ UNCHANGED <<wrote, block_args, gen, canvas, upload, dest, raster, png, gcode_text, thumbnails, blocks, content, layout, data, damage>>

\* a variant of DecodeBlock: a failing block ends the loop and the text collected
\* so far is returned
DecodeBlockBestEffort ==
  /\ pc = "loop"
  /\ pos < Len(data)
  /\ LET r == ParseBlock(data, pos)
     IN  IF r.kind = "advance"
           THEN /\ pos' = r.next
                /\ parts' = IF r.gcode THEN Append(parts, r.text) ELSE parts
                /\ UNCHANGED <<pc, result>>
         ELSE IF parts # <<>>
           THEN /\ pc' = "returned"
                /\ result' = Returned(Concat(parts))
                /\ UNCHANGED <<pos, parts>>
         ELSE /\ pc' = "raised"
              /\ result' = r
              /\ UNCHANGED <<pos, parts>>
  /\ UNCHANGED <<wrote, block_args, gen, canvas, upload, dest, raster, png, gcode_text, thumbnails, blocks, content, layout, data, damage>>

\* bgcode_to_ascii, lines 433-499: one iteration of the loop
DecodeBlock ==
  /\ pc = "loop"
  /\ pos < Len(data)
  /\ LET r == ParseBlock(data, pos)
     IN  IF r.kind = "advance"
           THEN /\ pos' = r.next
                /\ parts' = IF r.gcode THEN Append(parts, r.text) ELSE parts
                /\ UNCHANGED <<pc, result>>
           ELSE /\ pc' = "raised"
                /\ result' = r
                /\ UNCHANGED <<pos, parts>>
  /\ UNCHANGED <<wrote, block_args, gen, canvas, upload, dest, raster, png, gcode_text, thumbnails, blocks, content, layout, data, damage>>

\* a variant of DecodeReturn: the joined text is tested instead of the list
DecodeReturnTestsText ==
  /\ pc = "loop"
  /\ ~(pos < Len(data))
  /\ IF Concat(parts) = <<>>
       THEN pc' = "raised" /\ result' = Raise("NoGCodeBlocks", pos)
       ELSE pc' = "returned" /\ result' = Returned(Concat(parts))
  /\ UNCHANGED <<wrote, block_args, gen, canvas, upload, dest, raster, png, gcode_text, thumbnails, blocks, content, layout, data, damage, pos, parts>>

\* bgcode_to_ascii, lines 501-504: after the loop
DecodeReturn ==
  /\ pc = "loop"
  /\ ~(pos < Len(data))
  /\ IF parts = <<>>
       THEN pc' = "raised" /\ result' = Raise("NoGCodeBlocks", pos)
       ELSE pc' = "returned" /\ result' = Returned(Concat(parts))
  /\ UNCHANGED <<wrote, block_args, gen, canvas, upload, dest, raster, png, gcode_text, thumbnails, blocks, content, layout, data, damage, pos, parts>>

\* encode and decode what was written, or decode a hand-made container
Next == WriteBgcode \/ DecodeHeader \/ DecodeBlock \/ DecodeReturn

Spec == (Init \/ InitCraft) /\ [][Next]_vars

\* the same, with the buffer damaged or not before it is decoded
NextDamaged ==
  WriteBgcode \/ FlipByte \/ Truncate \/ DecodeHeader \/ DecodeBlock \/ DecodeReturn

SpecDamaged == (InitDamaged \/ InitCraftDamaged) /\ [][NextDamaged]_vars

\* what every step of DecodeHeader, DecodeBlock and DecodeReturn does to the
\* position in the code and the read offset, and no other step does
DecoderStep ==
  /\ pc \in {"written", "loop"}
  /\ pc' \in {"loop", "returned", "raised"}
  /\ pos' \in 0..(Len(data) + 10)

\* bgcode_to_ascii is sequential code: once called it keeps taking its steps
SpecDamagedFair == SpecDamaged /\ WF_<<pc, pos>>(DecoderStep)

(***************************************************************************)
(* The encoder alone, with lists of up to MaxThumbLen thumbnails.          *)
(***************************************************************************)
MaxThumbLen == 2

\* "", "G", e-acute and a newline, a lone surrogate
EncoderTexts == {<<>>, <<71>>, <<233, 10>>, <<55296>>}

EncoderThumbLists == SeqsUpTo(Thumbs, MaxThumbLen)

\* what dest can be: a str path, a pathlib.Path, a binary file object
Dests == {"str", "Path", "file"}

InitEncoder == InitWith(EncoderTexts, EncoderThumbLists, Dests)

SpecEncoder == InitEncoder /\ [][Next]_vars

(***************************************************************************)
(* The two assemblers of the repository: _common.py's _write_bgcode, which *)
(* handle_output and its upload path call, and pa_cal.py's own writer.     *)
(***************************************************************************)
InitPaCal ==
  /\ gcode_text \in EncoderTexts
  /\ thumbnails = <<>>
  /\ blocks = <<>>
  /\ content = <<>>
  /\ layout = <<>>
  /\ data = <<>>
  /\ damage = NoDamage
  /\ pc = "start_pa_cal"
  /\ pos = 0
  /\ parts = <<>>
  /\ result = NoResult
  /\ dest = "file"
  /\ raster = NoRaster
  /\ png = <<>>
  /\ wrote = NoWrite
  /\ Unused(block_args) /\ Unused(gen) /\ Unused(canvas) /\ Unused(upload)

NextAssemblers ==
  WriteBgcode \/ PaCalWriteBgcode \/ DecodeHeader \/ DecodeBlock \/ DecodeReturn

SpecAssemblers == (InitEncoder \/ InitPaCal) /\ [][NextAssemblers]_vars

(***************************************************************************)
(* Hand-made containers whose G-code is split over GCode blocks, also in   *)
(* the middle of the two UTF-8 bytes of e-acute (195, 169).                *)
(***************************************************************************)
SplitBlocks ==
  {Blk(BLK_PRINTER_META, COMP_NONE, ENC_INI, 0, <<>>, TRUE),
   Blk(BLK_GCODE, COMP_NONE, ENC_RAW, 0, <<71>>, TRUE),
   Blk(BLK_GCODE, COMP_NONE, ENC_RAW, 0, <<195>>, TRUE),
   Blk(BLK_GCODE, COMP_NONE, ENC_RAW, 0, <<169>>, TRUE),
   Blk(BLK_GCODE, COMP_DEFLATE, ENC_RAW, 2, Deflate(<<195, 169>>), TRUE)}

SplitLists == SeqsUpTo(SplitBlocks, MaxBlocks)

InitSplit == InitCraftOf(SplitLists)

NextDecode == DecodeHeader \/ DecodeBlock \/ DecodeReturn

SpecSplit == InitSplit /\ [][NextDecode]_vars

(***************************************************************************)
(* Hand-made containers with Deflate streams, sound and corrupt, and with  *)
(* bytes that are not UTF-8, decoded as they are, with one byte replaced,  *)
(* or cut short.                                                           *)
(***************************************************************************)
MaxCorruptBlocks == 1

CorruptBlocks ==
  {Blk(BLK_PRINTER_META, COMP_NONE, ENC_INI, 0, <<>>, TRUE),
   Blk(BLK_GCODE, COMP_DEFLATE, ENC_RAW, 1, Deflate(<<10>>), TRUE),
   Blk(BLK_GCODE, COMP_DEFLATE, ENC_RAW, 1, <<120, 156, 7>>, TRUE),
   Blk(BLK_GCODE, COMP_DEFLATE, ENC_RAW, 1, Deflate(<<255>>), TRUE),
   Blk(BLK_GCODE, COMP_NONE, ENC_RAW, 0, <<255>>, TRUE)}

CorruptLists == SeqsUpTo(CorruptBlocks, MaxCorruptBlocks)

InitCorrupt == InitCraftOf(CorruptLists)

NextCorrupt == FlipByte \/ Truncate \/ DecodeHeader \/ DecodeBlock \/ DecodeReturn

SpecCorrupt == InitCorrupt /\ [][NextCorrupt]_vars

(***************************************************************************)
(* _make_png alone: images of up to MaxSide by MaxSide pixels (and the     *)
(* side -1), whose pixels run through Colours from some first colour, all  *)
(* alike (step 0) or each the next one (step 1); the list has one pixel    *)
(* fewer or more than width * height, or as many.                          *)
(***************************************************************************)
MaxSide == 2

\* _THUMB_BG
THUMB_BG == <<30, 30, 30>>

\* _THUMB_FG
THUMB_FG == <<250, 104, 49>>

\* black, the thumbnail colours, and channels above 255 and below 0
Colours == <<<<0, 0, 0>>, THUMB_BG, THUMB_FG, <<300, -5, 128>>, <<255, 256, -1>>>>

PixelLists(count) ==
  {[i \in 1..n |-> Colours[((first + step * (i - 1)) % Len(Colours)) + 1]] :
     n \in {k \in {count - 1, count, count + 1} : k >= 0},
     first \in 0..(Len(Colours) - 1), step \in 0..1}

Rasters ==
  UNION {{[width |-> w, height |-> h, pixels |-> px] :
            px \in PixelLists(IF w < 0 \/ h < 0 THEN 0 ELSE w * h)} :
         w \in (-1)..MaxSide, h \in (-1)..MaxSide}

InitPng ==
  /\ raster \in Rasters
  /\ png = <<>>
  /\ wrote = NoWrite
  /\ Unused(block_args) /\ Unused(gen) /\ Unused(canvas) /\ Unused(upload)
  /\ pc = "raster"
  /\ result = NoResult
  /\ gcode_text = <<>>
  /\ thumbnails = <<>>
  /\ blocks = <<>>
  /\ content = <<>>
  /\ layout = <<>>
  /\ data = <<>>
  /\ damage = NoDamage
  /\ pos = 0
  /\ parts = <<>>
  /\ dest = "file"

\* the call _make_png(width, height, pixels)
CallMakePng ==
  /\ pc = "raster"
  /\ IF MakePngError(raster.width, raster.height, raster.pixels) # ""
       THEN /\ pc' = "png_raised"
            /\ result' = Raise(MakePngError(raster.width, raster.height, raster.pixels), 0)
            /\ UNCHANGED png
       ELSE /\ pc' = "png_made"
            /\ png' = MakePng(raster.width, raster.height, raster.pixels)
            /\ UNCHANGED result
  /\ UNCHANGED <<wrote, block_args, gen, canvas, upload, dest, raster, gcode_text, thumbnails, blocks, content, layout, data,
                 damage, pos, parts>>

NextPng == CallMakePng

SpecPng == InitPng /\ [][NextPng]_vars

(***************************************************************************)
(* Hand-made containers whose blocks have more than one fault at a time    *)
(* (a wrong checksum with an unsupported compression or encoding, a        *)
(* corrupt Deflate stream with an unsupported encoding), decoded as they   *)
(* are or cut short.                                                       *)
(***************************************************************************)
MaxFaultyBlocks == 2

FaultyBlocks ==
  {Blk(BLK_PRINTER_META, COMP_NONE, ENC_INI, 0, <<>>, TRUE),
   Blk(BLK_GCODE, COMP_NONE, ENC_RAW, 0, <<71>>, TRUE),
   Blk(BLK_GCODE, 2, ENC_RAW, 1, <<71>>, FALSE),
   Blk(BLK_GCODE, COMP_NONE, 1, 0, <<71>>, FALSE),
   Blk(BLK_GCODE, COMP_DEFLATE, 1, 1, <<120, 156, 7>>, TRUE),
   Blk(BLK_GCODE, 3, 2, 1, <<71>>, TRUE),
   Blk(BLK_SLICER_META, 4, ENC_INI, 1, <<97>>, FALSE)}

FaultyLists == SeqsUpTo(FaultyBlocks, MaxFaultyBlocks)

InitFaulty == InitCraftOf(FaultyLists)

NextFaulty == Truncate \/ DecodeHeader \/ DecodeBlock \/ DecodeReturn

SpecFaulty == InitFaulty /\ [][NextFaulty]_vars

(***************************************************************************)
(* _block alone: one block is serialized from a type, params, data of up   *)
(* to MaxBlockDataLen bytes (or bytes that are not UTF-8) and compress,    *)
(* and read back by bgcode_to_ascii as the only block after a file header. *)
(***************************************************************************)
MaxBlockDataLen == 5

\* "A" and newline, e-acute in UTF-8, and a byte that is not UTF-8
BlockData == SeqsUpTo({65, 10}, MaxBlockDataLen) \cup {<<195, 169>>, <<255>>}

\* no params, encoding 0, encoding 1, and a thumbnail's format, width, height
BlockParams == {<<>>, <<0, 0>>, <<1, 0>>, <<0, 0, 16, 0, 24, 0>>}

BlockArgs ==
  [btype : {BLK_PRINTER_META, BLK_GCODE, BLK_THUMBNAIL}, params : BlockParams,
   data : BlockData, compress : BOOLEAN]

InitBlock ==
  /\ block_args \in BlockArgs
  /\ pc = "block"
  /\ gcode_text = <<>>
  /\ thumbnails = <<>>
  /\ blocks = <<>>
  /\ content = <<>>
  /\ layout = <<>>
  /\ data = <<>>
  /\ damage = NoDamage
  /\ pos = 0
  /\ parts = <<>>
  /\ result = NoResult
  /\ dest = "file"
  /\ raster = NoRaster
  /\ png = <<>>
  /\ wrote = NoWrite
  /\ Unused(gen) /\ Unused(canvas) /\ Unused(upload)

\* the call _block(btype, params, data, compress); its bytes follow a file header
SerializeBlock ==
  /\ pc = "block"
  /\ pc' = "written"
  /\ data' = FileHeader
             \o Block(block_args.btype, block_args.params, block_args.data,
                      block_args.compress)
  /\ layout' = LayoutOf(<<Block(block_args.btype, block_args.params, block_args.data,
                                block_args.compress)>>)
  /\ UNCHANGED <<wrote, block_args, gen, canvas, upload, dest, raster, png, gcode_text,
                 thumbnails, blocks, content, damage, pos, parts, result>>

NextBlock == SerializeBlock \/ DecodeHeader \/ DecodeBlock \/ DecodeReturn

SpecBlock == InitBlock /\ [][NextBlock]_vars

(***************************************************************************)
(* BaseGenerator: retraction, Z-hop and travel.  Lengths are integers in   *)
(* units of 10^-6 mm, XY positions of the state are whole millimetres, and *)
(* an emitted line is a record of its words: the command, the axis words   *)
(* with their values, a literal minus sign written before the E value, and *)
(* the feed rate.                                                          *)
(***************************************************************************)
RECURSIVE Pow10(_)
Pow10(n) == IF n = 0 THEN 1 ELSE 10 * Pow10(n - 1)

UNIT_PLACES == 6

Z_PLACES == 3

XY_PLACES == 4

E_PLACES == 5

Mm(n) == n * Pow10(UNIT_PLACES)

RoundHalfEven(v, q) ==
  IF 2 * (v % q) > q \/ (2 * (v % q) = q /\ (v \div q) % 2 = 1)
  THEN (v \div q) + 1
  ELSE v \div q

R(v, places) == RoundHalfEven(v, Pow10(UNIT_PLACES - places)) * Pow10(UNIT_PLACES - places)

TRAVEL_THRESHOLD == 2

Dist2(x0, y0, x1, y1) == (x1 - x0) * (x1 - x0) + (y1 - y0) * (y1 - y0)

State0 == [x |-> 0, y |-> 0, z |-> 0, retracted |-> FALSE, hopped |-> FALSE]

CommonConfig(retract_dist, zhop) ==
  [retract_dist |-> retract_dist, zhop |-> zhop,
   retract_speed |-> 45, unretract_speed |-> 45, travel_speed |-> 150]

BaseGenerator(cfg) == [cfg |-> cfg, st |-> State0, buf |-> <<>>, call |-> "init", calls |-> 0]

Emit(g, line) == [g EXCEPT !.buf = Append(@, line)]

RetractLine(c) ==
  [cmd |-> "G1", axis |-> "E", minus |-> TRUE,
   val |-> R(c.retract_dist, E_PLACES), f |-> c.retract_speed * 60]

UnretractLine(c) ==
  [cmd |-> "G1", axis |-> "E", minus |-> FALSE,
   val |-> R(c.retract_dist, E_PLACES), f |-> c.unretract_speed * 60]

ZLine(c, zval) ==
  [cmd |-> "G0", axis |-> "Z", minus |-> FALSE, val |-> zval, f |-> c.travel_speed * 60]

XYLine(c, x, y) ==
  [cmd |-> "G0", axis |-> "XY", minus |-> FALSE,
   val |-> <<R(Mm(x), XY_PLACES), R(Mm(y), XY_PLACES)>>, f |-> c.travel_speed * 60]

RetractHop(g) ==
  IF g.cfg.zhop > 0 /\ ~g.st.hopped
  THEN [Emit(g, ZLine(g.cfg, R(g.st.z + g.cfg.zhop, Z_PLACES))) EXCEPT !.st.hopped = TRUE]
  ELSE g

RetractNotIdempotent(g) ==
  RetractHop([Emit(g, RetractLine(g.cfg)) EXCEPT !.st.retracted = TRUE])

Retract(g) ==
  IF g.st.retracted THEN g
  ELSE RetractHop([Emit(g, RetractLine(g.cfg)) EXCEPT !.st.retracted = TRUE])

UnretractLower(g) ==
  IF g.st.hopped
  THEN [Emit(g, ZLine(g.cfg, R(g.st.z, Z_PLACES))) EXCEPT !.st.hopped = FALSE]
  ELSE g

UnretractThenLower(g) ==
  IF ~g.st.retracted THEN g
  ELSE UnretractLower([Emit(g, UnretractLine(g.cfg)) EXCEPT !.st.retracted = FALSE])

Unretract(g) ==
  IF ~g.st.retracted THEN g
  ELSE [Emit(UnretractLower(g), UnretractLine(g.cfg)) EXCEPT !.st.retracted = FALSE]

TravelMove(g, x, y) == [Emit(g, XYLine(g.cfg, x, y)) EXCEPT !.st.x = x, !.st.y = y]

Travel(g, x, y) ==
  IF Dist2(g.st.x, g.st.y, x, y) > TRAVEL_THRESHOLD * TRAVEL_THRESHOLD
  THEN Unretract(TravelMove(Retract(g), x, y))
  ELSE TravelMove(g, x, y)

LayerChange(g, z) ==
  Unretract([Emit(Retract(g), ZLine(g.cfg, z)) EXCEPT !.st.z = z, !.st.hopped = FALSE])

Called(g, name) == [g EXCEPT !.call = name, !.calls = @ + 1]

(***************************************************************************)
(* A fresh generator under a configuration, then any sequence of at most   *)
(* MaxCalls calls of _retract, _unretract, _travel and the layer change of *)
(* the generators.                                                         *)
(***************************************************************************)
MaxCalls == 4

RetractDists == {0, 600000, 800004}

Zhops == {0, 100000, 200400}

TravelXs == {0, 2, 3}

TravelYs == {0, 1}

LayerZs == {200000, 400000}

InitGen ==
  /\ gen \in {BaseGenerator(CommonConfig(d, h)) : d \in RetractDists, h \in Zhops}
  /\ pc = "gen"
  /\ gcode_text = <<>> /\ thumbnails = <<>> /\ blocks = <<>> /\ content = <<>>
  /\ layout = <<>> /\ data = <<>> /\ damage = "none" /\ pos = 0 /\ parts = <<>>
  /\ result = NoResult /\ dest = "buffer" /\ raster = NoRaster /\ png = <<>>
  /\ wrote = NoWrite
  /\ Unused(block_args) /\ Unused(canvas) /\ Unused(upload)

GenUnchanged ==
  UNCHANGED <<gcode_text, thumbnails, blocks, content, layout, data, damage, pc, pos,
              parts, result, dest, raster, png, block_args, canvas, upload, wrote>>

CallRetract ==
  /\ pc = "gen" /\ gen.calls < MaxCalls
  /\ gen' = Called(Retract(gen), "retract")
  /\ GenUnchanged

CallUnretract ==
  /\ pc = "gen" /\ gen.calls < MaxCalls
  /\ gen' = Called(Unretract(gen), "unretract")
  /\ GenUnchanged

CallTravel ==
  /\ pc = "gen" /\ gen.calls < MaxCalls
  /\ \E x \in TravelXs, y \in TravelYs : gen' = Called(Travel(gen, x, y), "travel")
  /\ GenUnchanged

CallLayerChange ==
  /\ pc = "gen" /\ gen.calls < MaxCalls
  /\ \E z \in LayerZs : gen' = Called(LayerChange(gen, z), "layer")
  /\ GenUnchanged

NextGen == CallRetract \/ CallUnretract \/ CallTravel \/ CallLayerChange

SpecGen == InitGen /\ [][NextGen]_vars

(***************************************************************************)
(* _Raster: the pixel canvas.  _px is a Python list, indexed from 0; a     *)
(* store at a negative index -n..-1 wraps to the end of the list and one   *)
(* outside -n..n-1 raises IndexError.  A canvas is its width, height and   *)
(* pixel list, with the outcome of the last call: status "done", or        *)
(* "IndexError" (the stores before the failing one are not kept), or       *)
(* "running" when line has not left its loop within the iterations         *)
(* granted.                                                                *)
(***************************************************************************)
AbsInt(n) == IF n < 0 THEN -n ELSE n

MaxInt(m, n) == IF m > n THEN m ELSE n

MinInt(m, n) == IF m < n THEN m ELSE n

NewRaster(w, h, bg, fg) ==
  [w |-> w, h |-> h, fg |-> fg, px |-> [i \in 1..(w * h) |-> bg],
   status |-> "done", steps |-> 0]

\* c if c is not None else self._fg; None is the empty tuple
ColourOf(cv, c) == IF c = <<>> THEN cv.fg ELSE c

\* The 1-based position a store at Python index i goes to in a list of n
\* entries; 0 stands for IndexError.
PyIndex(n, i) ==
  IF i >= 0 /\ i < n THEN i + 1
  ELSE IF i < 0 /\ i >= -n THEN n + i + 1
  ELSE 0

\* self._px[i] = col for every position of idxs
Store(cv, idxs, col) ==
  IF 0 \in idxs THEN [cv EXCEPT !.status = "IndexError"]
  ELSE [cv EXCEPT !.px = [i \in 1..Len(cv.px) |-> IF i \in idxs THEN col ELSE cv.px[i]]]

SetTargetsUnguarded(cv, x, y) == {PyIndex(Len(cv.px), y * cv.w + x)}

SetTargets(cv, x, y) ==
  IF 0 <= x /\ x < cv.w /\ 0 <= y /\ y < cv.h
  THEN {PyIndex(Len(cv.px), y * cv.w + x)}
  ELSE {}

SetPx(cv, x, y, col) == Store(cv, SetTargets(cv, x, y), col)

\* range(lo, hi) as a set
PyRange(lo, hi) == lo..(hi - 1)

FillRect(cv, x0, y0, x1, y1, col) ==
  Store(cv, {PyIndex(Len(cv.px), y * cv.w + x) :
               x \in PyRange(MaxInt(0, x0), MinInt(cv.w, x1)),
               y \in PyRange(MaxInt(0, y0), MinInt(cv.h, y1))}, col)

StampTargets(cv, x, y, ht) ==
  UNION {SetTargets(cv, x + tx, y + ty) : tx \in PyRange(-ht, ht + 1), ty \in PyRange(-ht, ht + 1)}

Sign(from, to) == IF from < to THEN 1 ELSE -1

StepX(a, x, err) == IF 2 * err > -a.dy THEN x + a.sx ELSE x

StepY(a, y, err) == IF 2 * err < a.dx THEN y + a.sy ELSE y

StepErr(a, err) ==
  err - (IF 2 * err > -a.dy THEN a.dy ELSE 0) + (IF 2 * err < a.dx THEN a.dx ELSE 0)

\* The points the loop of line visits, in order; the loop has left through
\* its break exactly when the last one is the end point.
RECURSIVE LinePath(_, _, _, _, _)
LinePath(a, x, y, err, fuel) ==
  IF fuel = 0 THEN <<>>
  ELSE IF x = a.x1 /\ y = a.y1 THEN <<<<x, y>>>>
  ELSE <<<<x, y>>>> \o LinePath(a, StepX(a, x, err), StepY(a, y, err), StepErr(a, err), fuel - 1)

LineArgs(x0, y0, x1, y1) ==
  [x1 |-> x1, y1 |-> y1,
   dx |-> AbsInt(x1 - x0), dy |-> AbsInt(y1 - y0),
   sx |-> Sign(x0, x1), sy |-> Sign(y0, y1)]

\* The loop is granted twice the iterations of the longest monotone path
\* between the endpoints.
LineFuel(x0, y0, x1, y1) == 2 * (AbsInt(x1 - x0) + AbsInt(y1 - y0)) + 2

LineAlong(cv, path, x1, y1, ht, col) ==
  [Store(cv, UNION {StampTargets(cv, path[k][1], path[k][2], ht) : k \in 1..Len(path)}, col)
     EXCEPT !.steps = Len(path),
            !.status = IF path[Len(path)] = <<x1, y1>> THEN @ ELSE "running"]

Line(cv, x0, y0, x1, y1, thick, col) ==
  Only({LineAlong(cv, path, x1, y1, thick \div 2, col) :
          path \in {LinePath(LineArgs(x0, y0, x1, y1), x0, y0,
                             AbsInt(x1 - x0) - AbsInt(y1 - y0), LineFuel(x0, y0, x1, y1))}})

(***************************************************************************)
(* A canvas of width 1..MaxWidth on which earlier _set calls have drawn    *)
(* with the two thumbnail colours, then one call of _set, fill_rect or     *)
(* line with coordinates from one pixel outside the canvas on every side.  *)
(***************************************************************************)
MaxWidth == 2

CanvasHeights == {1, 2}

XCoords == -1..MaxWidth

YCoords == -1..2

Thicknesses == {1, 2}

DrawColours == {<<>>, THUMB_BG}

Drawn(w, h, pixels) == [NewRaster(w, h, THUMB_BG, THUMB_FG) EXCEPT !.px = pixels]

Canvases ==
  UNION {{Drawn(w, h, p) : p \in [1..(w * h) -> {THUMB_BG, THUMB_FG}]} :
           w \in 1..MaxWidth, h \in CanvasHeights}

InitCanvas ==
  /\ canvas \in {[r |-> cv, op |-> "new", args |-> <<>>, before |-> cv.px] : cv \in Canvases}
  /\ pc = "canvas"
  /\ gcode_text = <<>> /\ thumbnails = <<>> /\ blocks = <<>> /\ content = <<>>
  /\ layout = <<>> /\ data = <<>> /\ damage = "none" /\ pos = 0 /\ parts = <<>>
  /\ result = NoResult /\ dest = "buffer" /\ raster = NoRaster /\ png = <<>>
  /\ wrote = NoWrite
  /\ Unused(block_args) /\ Unused(gen) /\ Unused(upload)

CanvasUnchanged ==
  UNCHANGED <<gcode_text, thumbnails, blocks, content, layout, data, damage, pc, pos,
              parts, result, dest, raster, png, block_args, gen, upload, wrote>>

Began(cv) == [cv EXCEPT !.steps = 0]

CallSet ==
  /\ pc = "canvas" /\ canvas.op = "new"
  /\ \E x \in XCoords, y \in YCoords, c \in DrawColours :
       canvas' = [r |-> SetPx(Began(canvas.r), x, y, ColourOf(canvas.r, c)), op |-> "set",
                  args |-> <<x, y, ColourOf(canvas.r, c)>>, before |-> canvas.r.px]
  /\ CanvasUnchanged

CallFillRect ==
  /\ pc = "canvas" /\ canvas.op = "new"
  /\ \E x0 \in XCoords, y0 \in YCoords, x1 \in XCoords, y1 \in YCoords, c \in DrawColours :
       canvas' = [r |-> FillRect(Began(canvas.r), x0, y0, x1, y1, ColourOf(canvas.r, c)),
                  op |-> "fill_rect",
                  args |-> <<x0, y0, x1, y1, ColourOf(canvas.r, c)>>, before |-> canvas.r.px]
  /\ CanvasUnchanged

CallLine ==
  /\ pc = "canvas" /\ canvas.op = "new"
  /\ \E x0 \in XCoords, y0 \in YCoords, x1 \in XCoords, y1 \in YCoords,
        thick \in Thicknesses, c \in DrawColours :
       canvas' = [r |-> Line(Began(canvas.r), x0, y0, x1, y1, thick, ColourOf(canvas.r, c)),
                  op |-> "line",
                  args |-> <<x0, y0, x1, y1, ColourOf(canvas.r, c), thick>>,
                  before |-> canvas.r.px]
  /\ CanvasUnchanged

NextCanvas == CallSet \/ CallFillRect \/ CallLine

SpecCanvas == InitCanvas /\ [][NextCanvas]_vars

(***************************************************************************)
(* _upload_prusaconnect, one step per exchange with the file system or a   *)
(* server.  The token file is missing, unreadable or a dictionary; the     *)
(* keys read with .get are "" when absent and has_access tells whether     *)
(* access_token is there; expired is the outcome of comparing expires_at   *)
(* with the clock.  A server answers with an HTTP error, with another      *)
(* failure of the transport (URLError, which no handler catches) or with   *)
(* a body.  sys.exit(1) and an exception nobody catches both end the       *)
(* process with exit status 1; err names which.                            *)
(***************************************************************************)
TokenFiles ==
  {[file |-> "missing"], [file |-> "unreadable"]} \cup
  [file : {"ok"}, has_access : BOOLEAN, expired : BOOLEAN,
   refresh_token : {"", "r0"}, team_id : {"", "t1"}, printer_uuid : {"", "p1"}]

NewUpload(tf, start_print) ==
  [at |-> "start", token_file |-> tf, start_print |-> start_print, tokens |-> <<>>,
   sent |-> <<>>, saved |-> <<>>, upload_id |-> "", exit |-> 0, err |-> ""]

Exit1(u, why) == [u EXCEPT !.at = "exited", !.exit = 1, !.err = why]

Sent(u, req) == [u EXCEPT !.sent = Append(@, req)]

LoadTokens(u) ==
  IF u.token_file.file = "missing" THEN Exit1(u, "SystemExit")
  ELSE IF u.token_file.file = "unreadable" THEN Exit1(u, "SystemExit")
  ELSE [u EXCEPT !.at = "loaded",
                 !.tokens = [has_access |-> u.token_file.has_access,
                             access_token |-> IF u.token_file.has_access THEN "a0" ELSE "",
                             refresh_token |-> u.token_file.refresh_token,
                             expired |-> u.token_file.expired,
                             team_id |-> u.token_file.team_id,
                             printer_uuid |-> u.token_file.printer_uuid]]

\* "" as refresh_token of the answer stands for an answer without the key
RefreshResponses ==
  {[status |-> "HTTPError"], [status |-> "URLError"]} \cup
  [status : {"ok"}, access_token : {"", "a1"}, refresh_token : {"", "r1"}]

RefreshRequest(u) ==
  [method |-> "POST", url |-> "token", refresh_token |-> u.tokens.refresh_token]

Refreshed(t, resp) ==
  [t EXCEPT !.access_token = resp.access_token, !.has_access = TRUE,
            !.refresh_token = IF resp.refresh_token # "" THEN resp.refresh_token ELSE @,
            !.expired = FALSE]

\* _save: the write succeeds or raises OSError
SaveTokens(u, t, save_ok) ==
  IF save_ok
  THEN [u EXCEPT !.at = "fresh", !.tokens = t, !.saved = <<[tokens |-> t, after |-> Len(u.sent)]>>]
  ELSE Exit1([u EXCEPT !.tokens = t], "OSError")

\* "" as access_token of the answer stands for an answer without the key
RefreshOutcome(u, resp, save_ok) ==
  IF resp.status = "HTTPError" THEN Exit1(u, "SystemExit")
  ELSE IF resp.status = "URLError" THEN Exit1(u, "URLError")
  ELSE IF resp.access_token = "" THEN Exit1(u, "KeyError")
  ELSE SaveTokens(u, Refreshed(u.tokens, resp), save_ok)

RegisterResponses ==
  {[status |-> "HTTPError"], [status |-> "URLError"]} \cup [status : {"ok"}, id : {"", "u1"}]

RegisterRequest(u) ==
  [method |-> "POST", url |-> <<"uploads", u.tokens.team_id>>,
   bearer |-> u.tokens.access_token, printer_uuid |-> u.tokens.printer_uuid]

\* "" as id stands for every answer whose id is absent or falsy
RegisterIgnoresId(u, resp) ==
  IF resp.status = "ok" THEN [u EXCEPT !.at = "registered", !.upload_id = resp.id]
  ELSE Exit1(u, "SystemExit")

RegisterOutcome(u, resp) ==
  IF resp.status = "HTTPError" THEN Exit1(u, "SystemExit")
  ELSE IF resp.status = "URLError" THEN Exit1(u, "URLError")
  ELSE IF resp.id = "" THEN Exit1(u, "SystemExit")
  ELSE [u EXCEPT !.at = "registered", !.upload_id = resp.id]

PutResponses == {"HTTPError", "URLError", "ok"}

PutRequest(u) ==
  [method |-> "PUT", url |-> <<"files/raw", u.tokens.team_id, u.upload_id, u.start_print>>,
   bearer |-> u.tokens.access_token]

PutOutcome(u, status) ==
  IF status = "HTTPError" THEN Exit1(u, "SystemExit")
  ELSE IF status = "URLError" THEN Exit1(u, "URLError")
  ELSE [u EXCEPT !.at = "done"]

InitUpload ==
  /\ upload \in {NewUpload(tf, sp) : tf \in TokenFiles, sp \in BOOLEAN}
  /\ pc = "upload"
  /\ gcode_text = <<>> /\ thumbnails = <<>> /\ blocks = <<>> /\ content = <<>>
  /\ layout = <<>> /\ data = <<>> /\ damage = "none" /\ pos = 0 /\ parts = <<>>
  /\ result = NoResult /\ dest = "buffer" /\ raster = NoRaster /\ png = <<>>
  /\ wrote = NoWrite
  /\ Unused(block_args) /\ Unused(gen) /\ Unused(canvas)

UploadUnchanged ==
  UNCHANGED <<gcode_text, thumbnails, blocks, content, layout, data, damage, pc, pos,
              parts, result, dest, raster, png, block_args, gen, canvas, wrote>>

UploadLoad ==
  /\ pc = "upload" /\ upload.at = "start"
  /\ upload' = LoadTokens(upload)
  /\ UploadUnchanged

UploadRefresh ==
  /\ pc = "upload" /\ upload.at = "loaded"
  /\ \/ /\ ~upload.tokens.expired
        /\ upload' = [upload EXCEPT !.at = "fresh"]
     \/ /\ upload.tokens.expired /\ upload.tokens.refresh_token = ""
        /\ upload' = Exit1(upload, "SystemExit")
     \/ /\ upload.tokens.expired /\ upload.tokens.refresh_token # ""
        /\ \E resp \in RefreshResponses, save_ok \in BOOLEAN :
             upload' = RefreshOutcome(Sent(upload, RefreshRequest(upload)), resp, save_ok)
  /\ UploadUnchanged

UploadCheckIds ==
  /\ pc = "upload" /\ upload.at = "fresh"
  /\ upload' = IF ~upload.tokens.has_access THEN Exit1(upload, "KeyError")
               ELSE IF upload.tokens.team_id = "" \/ upload.tokens.printer_uuid = ""
               THEN Exit1(upload, "SystemExit")
               ELSE [upload EXCEPT !.at = "ready"]
  /\ UploadUnchanged

UploadRegister ==
  /\ pc = "upload" /\ upload.at = "ready"
  /\ \E resp \in RegisterResponses :
       upload' = RegisterOutcome(Sent(upload, RegisterRequest(upload)), resp)
  /\ UploadUnchanged

UploadPut ==
  /\ pc = "upload" /\ upload.at = "registered"
  /\ \E status \in PutResponses :
       upload' = PutOutcome(Sent(upload, PutRequest(upload)), status)
  /\ UploadUnchanged

NextUpload == UploadLoad \/ UploadRefresh \/ UploadCheckIds \/ UploadRegister \/ UploadPut

SpecUpload == InitUpload /\ [][NextUpload]_vars

(***************************************************************************)
(* Hand-made containers whose file header is rewritten in bytes 4..9 (the  *)
(* format version and the checksum-algorithm identifier) before they are   *)
(* decoded.                                                                *)
(***************************************************************************)
HeaderBlocks ==
  GoodBlocks \cup {Blk(BLK_GCODE, COMP_NONE, ENC_RAW, 0, <<71>>, FALSE),
                   Blk(BLK_GCODE, 2, ENC_RAW, 1, <<71>>, TRUE)}

HeaderLists == SeqsUpTo(HeaderBlocks, MaxBlocks)

Versions == {<<1, 0, 0, 0>>, <<0, 0, 0, 0>>, <<2, 0, 0, 0>>, <<1, 0, 0, 1>>, <<255, 255, 255, 255>>}

ChecksumTypes == {<<1, 0>>, <<0, 0>>, <<2, 0>>, <<1, 1>>, <<255, 255>>}

InitHeader == InitCraftOf(HeaderLists)

\* the container is written with another version and checksum type
RewriteHeader ==
  /\ pc = "written"
  /\ damage = NoDamage
  /\ \E v \in Versions, c \in ChecksumTypes :
       /\ data' = Slice(data, 0, 4) \o v \o c \o Slice(data, 10, Len(data))
       /\ damage' = [kind |-> "header", at |-> 4, value |-> 0]
  /\ UNCHANGED <<wrote, block_args, gen, canvas, upload, dest, raster, png, gcode_text, thumbnails, blocks, content, layout, pc, pos, parts, result>>

NextHeader == RewriteHeader \/ DecodeHeader \/ DecodeBlock \/ DecodeReturn

SpecHeader == InitHeader /\ [][NextHeader]_vars

(***************************************************************************)
(* Hand-made containers whose Deflate G-code blocks announce an            *)
(* uncompressed size that is the length of the text, or is not; the        *)
(* checksum of every block is the one of its bytes.                        *)
(***************************************************************************)
SizeTexts == {<<71>>, <<71, 10>>}

AnnouncedSizes == {0, 1, 2, 70000}

SizeBlocks ==
  {Blk(BLK_GCODE, COMP_DEFLATE, ENC_RAW, u, Deflate(t), TRUE) : u \in AnnouncedSizes, t \in SizeTexts}
  \cup {Blk(BLK_GCODE, COMP_DEFLATE, ENC_RAW, u, <<120, 156, 7>>, TRUE) : u \in {1, 3}}
  \cup {Blk(BLK_PRINTER_META, COMP_NONE, ENC_INI, 0, <<>>, TRUE)}

SizeLists == SeqsUpTo(SizeBlocks, MaxBlocks)

InitSize == InitCraftOf(SizeLists)

SpecSize == InitSize /\ [][NextDecode]_vars

(***************************************************************************)
(* Properties.                                                              *)
(***************************************************************************)
\* bgcode_to_ascii has returned or raised
Done == pc \in {"returned", "raised"}

\* the buffer came from _write_bgcode (hand-made containers have no content)
Written == content # <<>>

\* the block of the original buffer that holds offset i, 0 if none does
BlockOf(i) ==
  IF \E k \in 1..Len(layout) : layout[k].start <= i /\ i < layout[k].end
    THEN CHOOSE k \in 1..Len(layout) : layout[k].start <= i /\ i < layout[k].end
    ELSE 0

\* offset i lies in the header, params or payload of block k (not in its checksum)
InSpan(i, k) == layout[k].start <= i /\ i < layout[k].end - 4

\* offset i lies in the params or payload of block k, whose header has 8 bytes
InParamsOrPayload(i, k) == layout[k].start + 8 <= i /\ i < layout[k].end - 4

\* offset i lies in the trailing checksum of block k
InChecksum(i, k) == layout[k].end - 4 <= i /\ i < layout[k].end

\* n is the end of the file header or of a block
IsBoundary(n) == n = 10 \/ \E k \in 1..Len(layout) : layout[k].end = n

IsProperPrefix(a, b) == Len(a) < Len(b) /\ a = SubSeq(b, 1, Len(a))

\* the G-code of a hand-made container of raw, ASCII GCode blocks
RECURSIVE CraftText(_)
CraftText(bl) ==
  IF bl = <<>> THEN <<>>
  ELSE (IF Head(bl).btype = BLK_GCODE THEN Head(bl).payload ELSE <<>>) \o CraftText(Tail(bl))

GcodeCount(bl) == Cardinality({k \in 1..Len(bl) : bl[k].btype = BLK_GCODE})

\* a hand-made block that the decoder passes over or decodes without raising
Passes(b) ==
  \/ b \in GoodBlocks
  \/ b.btype # BLK_GCODE /\ b.crc_ok /\ b.comp \in {0, 1, 2, 3}

\* block k of a hand-made container is reached: every block before it passes
Reached(k) == \A j \in 1..(k - 1) : Passes(blocks[j])

\* C1: decoding the bytes written by _write_bgcode(T, dest, L) returns exactly T,
\* for every text and thumbnail list the encoder writes.
C1_RoundTrip == (Written /\ Done) => (pc = "returned" /\ result.text = gcode_text)

C1_Witness ==
  /\ Written /\ pc = "returned"
  /\ Len(gcode_text) = 2 /\ gcode_text[1] = 233
  /\ thumbnails # <<>>
  /\ result.text = gcode_text

\* C2 as stated: replacing any byte of a block's header, params or payload makes
\* the decode raise a checksum mismatch naming that block's offset.
C2_AnySpanByteIsCrcMismatch ==
  (Written /\ Done /\ damage.kind = "byte" /\ BlockOf(damage.at) # 0
   /\ InSpan(damage.at, BlockOf(damage.at)))
  => (pc = "raised" /\ result.kind = "CrcMismatch"
      /\ result.offset = layout[BlockOf(damage.at)].start)

\* C2 amended: replacing a byte of a block's params or payload raises a checksum
\* mismatch naming that block's offset; replacing a byte of the block header
\* fails at that block's offset too, as a checksum mismatch, a truncated block or
\* an unknown compression.
C2_TamperDetected ==
  (Written /\ Done /\ damage.kind = "byte" /\ BlockOf(damage.at) # 0
   /\ InSpan(damage.at, BlockOf(damage.at)))
  => /\ pc = "raised"
     /\ result.offset = layout[BlockOf(damage.at)].start
     /\ IF InParamsOrPayload(damage.at, BlockOf(damage.at))
          THEN result.kind = "CrcMismatch"
          ELSE result.kind \in {"CrcMismatch", "TruncatedHeader", "TruncatedPayload",
                                "UnknownCompression"}

C2_Witness ==
  /\ Written /\ pc = "raised" /\ damage.kind = "byte"
  /\ BlockOf(damage.at) # 0
  /\ InParamsOrPayload(damage.at, BlockOf(damage.at))
  /\ layout[BlockOf(damage.at)].btype = BLK_THUMBNAIL
  /\ result.kind = "CrcMismatch"
  /\ result.offset = layout[BlockOf(damage.at)].start

\* C3: replacing a byte of a block's trailing checksum makes the decode fail with
\* a checksum mismatch for that block: the stored value is the damaged one, the
\* computed value is the one the encoder wrote, and they differ.
C3_ChecksumByteDetected ==
  (Written /\ Done /\ damage.kind = "byte" /\ BlockOf(damage.at) # 0
   /\ InChecksum(damage.at, BlockOf(damage.at)))
  => LET k == BlockOf(damage.at)
     IN  /\ pc = "raised"
         /\ result.kind = "CrcMismatch"
         /\ result.offset = layout[k].start
         /\ result.stored = Slice(data, layout[k].end - 4, layout[k].end)
         /\ result.computed = Slice(content, layout[k].end - 4, layout[k].end)
         /\ result.stored # result.computed

C3_Witness ==
  /\ Written /\ pc = "raised" /\ damage.kind = "byte"
  /\ BlockOf(damage.at) = Len(layout)
  /\ InChecksum(damage.at, BlockOf(damage.at))
  /\ result.kind = "CrcMismatch"
  /\ result.stored # result.computed

C5_AnyPrefixIsTruncated ==
  (Written /\ Done /\ damage.kind = "cut")
  => (pc = "raised"
      /\ result.kind \in {"TruncatedHeader", "TruncatedPayload", "DataTooShort",
                          "BadMagic"})

\* C5 amended: every proper prefix of an encoder output raises, and never by a
\* read outside the buffer: too-short data below 10 bytes, no-GCode-blocks when
\* the cut is at the end of the file header or of a block, and otherwise a
\* truncated block at the offset of the block that was cut.
C5_PrefixRaises ==
  (Written /\ Done /\ damage.kind = "cut")
  => /\ pc = "raised"
     /\ result.kind # "struct.error"
     /\ IF damage.at < 10 THEN result.kind = "DataTooShort"
        ELSE IF IsBoundary(damage.at) THEN result.kind = "NoGCodeBlocks"
        ELSE /\ result.kind \in {"TruncatedHeader", "TruncatedPayload"}
             /\ result.offset = layout[BlockOf(damage.at)].start

C5_Witness ==
  /\ Written /\ pc = "raised" /\ damage.kind = "cut"
  /\ BlockOf(damage.at) = Len(layout)
  /\ InChecksum(damage.at, Len(layout))
  /\ damage.at > layout[Len(layout)].end - 4
  /\ result.kind = "TruncatedPayload"

\* C6 as stated: no corrupted or shortened copy of a container with two or more
\* GCode blocks decodes to a proper prefix of the container's G-code.
C6_NeverProperPrefix ==
  (~Written /\ Done /\ damage.kind # "none" /\ GcodeCount(blocks) >= 2)
  => ~(pc = "returned" /\ IsProperPrefix(result.text, CraftText(blocks)))

\* C6 amended: a failure in any block is terminal, no text is returned with it
\* even when earlier GCode blocks were collected; a copy with one byte replaced
\* never decodes to a proper prefix of the G-code, and a shortened copy does so
\* only when it is cut exactly at the end of a block, where no block fails.
C6_NoPartialOutput ==
  (~Written /\ Done /\ damage.kind # "none" /\ GcodeCount(blocks) >= 2)
  => /\ pc = "raised" => result.text = <<>>
     /\ (pc = "returned" /\ IsProperPrefix(result.text, CraftText(blocks)))
        => (damage.kind = "cut" /\ IsBoundary(damage.at))

C6_Witness ==
  /\ ~Written /\ pc = "raised" /\ damage.kind = "byte"
  /\ GcodeCount(blocks) >= 2
  /\ BlockOf(damage.at) = 2
  /\ parts # <<>>
  /\ result.kind = "CrcMismatch"
  /\ result.text = <<>>

\* C7: text is returned only if the checksum of every block of the buffer
\* matched, the metadata and Thumbnail blocks before and after the GCode blocks
\* included, and every block was walked.
C7_AllChecksumsVerified ==
  (~Written /\ pc = "returned")
  => (pos = Len(data) /\ \A k \in 1..Len(blocks) : blocks[k].crc_ok)

C7_Witness ==
  /\ ~Written /\ pc = "returned"
  /\ Len(blocks) = 2
  /\ blocks[1].btype = BLK_GCODE
  /\ blocks[2].btype = BLK_THUMBNAIL
  /\ blocks[2].crc_ok

\* C8: for a buffer whose blocks are all well-formed the decode raises the
\* no-GCode-blocks error if and only if no block has type GCode; a GCode block
\* with an empty payload counts, and the encoding of the empty text decodes to
\* the empty string.
C8_NoGcodeIffNone ==
  /\ (~Written /\ Done /\ \A k \in 1..Len(blocks) : blocks[k] \in GoodBlocks)
     => /\ (pc = "raised" /\ result.kind = "NoGCodeBlocks") <=> GcodeCount(blocks) = 0
        /\ GcodeCount(blocks) > 0 => pc = "returned"
  /\ (Written /\ Done /\ gcode_text = <<>>) => (pc = "returned" /\ result.text = <<>>)

C8_Witness ==
  /\ ~Written /\ pc = "returned"
  /\ Len(blocks) = 2
  /\ \A k \in 1..2 : blocks[k].btype = BLK_GCODE => blocks[k].payload = <<>>
  /\ GcodeCount(blocks) = 1
  /\ result.text = <<>>

\* C9 as stated: a GCode block whose encoding parameter is not 0 makes the decode
\* fail with the unsupported-encoding error whatever its compression and payload.
C9_OddEncodingIsEncodingError ==
  (~Written /\ Done)
  => \A k \in 1..Len(blocks) :
       (Reached(k) /\ blocks[k].crc_ok /\ blocks[k].btype = BLK_GCODE
        /\ blocks[k].enc # ENC_RAW)
       => (pc = "raised" /\ result.kind = "UnsupportedEncoding")

\* C9 amended: a reached, checksum-valid GCode block whose encoding parameter is
\* not 0 makes the decode fail at its offset and return no text; the error is
\* unsupported-encoding when the compression is None or a Deflate stream that
\* inflates, the Deflate failure when the stream does not inflate, and
\* unsupported-compression when the compression is 2 or 3.  The encoding
\* parameter of a block of another type is not inspected.
C9_OddEncoding ==
  (~Written /\ Done)
  => \A k \in 1..Len(blocks) :
       (Reached(k) /\ blocks[k].crc_ok /\ blocks[k].enc # ENC_RAW
        /\ blocks[k].comp \in {0, 1, 2, 3})
       => IF blocks[k].btype = BLK_GCODE
            THEN /\ pc = "raised"
                 /\ result.offset = layout[k].start
                 /\ result.text = <<>>
                 /\ result.kind =
                      IF blocks[k].comp \in {2, 3} THEN "UnsupportedCompression"
                      ELSE IF blocks[k].comp = COMP_DEFLATE
                              /\ Inflate(blocks[k].payload).status # "ok"
                        THEN "DeflateFailed"
                      ELSE "UnsupportedEncoding"
            ELSE pc = "raised" => result.offset # layout[k].start

C9_Witness ==
  /\ ~Written /\ pc = "raised"
  /\ Len(blocks) = 2
  /\ blocks[1].btype = BLK_PRINTER_META /\ blocks[1].enc = 1
  /\ blocks[2].btype = BLK_GCODE /\ blocks[2].enc = 1 /\ blocks[2].comp = COMP_DEFLATE
  /\ Inflate(blocks[2].payload).status = "ok"
  /\ result.kind = "UnsupportedEncoding"
  /\ result.offset = layout[2].start

\* C10: a buffer shorter than 10 bytes, or whose first 4 bytes are not the magic,
\* fails with a malformed-header error before any block is examined; the length
\* is tested first, so a short buffer is too short even when it is a prefix of
\* the magic.
C10_HeaderChecked ==
  /\ (Done /\ (Len(data) < 10 \/ Slice(data, 0, 4) # MAGIC))
     => /\ pc = "raised"
        /\ pos = 0 /\ parts = <<>>
        /\ result.kind = IF Len(data) < 10 THEN "DataTooShort" ELSE "BadMagic"
  /\ pc = "loop" => (Len(data) >= 10 /\ Slice(data, 0, 4) = MAGIC)

C10_Witness ==
  /\ pc = "raised" /\ damage.kind = "cut" /\ damage.at = 3
  /\ data = SubSeq(MAGIC, 1, 3)
  /\ result.kind = "DataTooShort"
  /\ pos = 0

\* the block types of the written container, read from its bytes in file order
WrittenTypes == [k \in 1..Len(layout) |-> UnpackH(content, layout[k].start)]

\* C11: the block types written by _write_bgcode are FileMetadata(0),
\* PrinterMetadata(3), one Thumbnail(5) per listed thumbnail, PrintMetadata(4),
\* SlicerMetadata(2) and then GCode(1) as the last block; no GCode block comes
\* before a PrintMetadata or SlicerMetadata block.
C11_BlockOrder ==
  Written
  => /\ WrittenTypes
          = <<BLK_FILE_META, BLK_PRINTER_META>>
            \o [i \in 1..Len(thumbnails) |-> BLK_THUMBNAIL]
            \o <<BLK_PRINT_META, BLK_SLICER_META, BLK_GCODE>>
     /\ layout[Len(layout)].end = Len(content)
     /\ \A i, j \in 1..Len(layout) :
          (i < j /\ WrittenTypes[i] = BLK_GCODE)
          => WrittenTypes[j] \notin {BLK_PRINT_META, BLK_SLICER_META}

C11_Witness == Written /\ pc = "written" /\ Len(thumbnails) = 2 /\ Len(layout) = 7

\* the permutations of 1..n
BlockOrders(n) == {p \in [1..n -> 1..n] : \A i, j \in 1..n : i # j => p[i] # p[j]}

\* the block list bl taken in the order p
Reorder(bl, p) == [i \in 1..Len(bl) |-> bl[p[i]]]

\* the reorderings of bl that keep the GCode blocks in their relative order
GcodeOrderKept(bl) ==
  {p \in BlockOrders(Len(bl)) :
     \A i, j \in 1..Len(bl) :
       (i < j /\ bl[p[i]].btype = BLK_GCODE /\ bl[p[j]].btype = BLK_GCODE) => p[i] < p[j]}

\* C12: when a hand-made container decodes to a text, every reordering of its
\* blocks that keeps the relative order of the GCode blocks decodes to the same
\* text, also when a GCode block comes before metadata blocks.
C12_OrderIndependent ==
  (~Written /\ pc = "returned")
  => \A p \in GcodeOrderKept(blocks) :
       LET r == BgcodeToAscii(CraftContainer(Reorder(blocks, p)))
       IN  r.kind = "ok" /\ r.text = result.text

C12_Witness ==
  /\ ~Written /\ pc = "returned"
  /\ Len(blocks) = 2
  /\ blocks[1].btype = BLK_PRINTER_META
  /\ blocks[2].btype = BLK_GCODE
  /\ result.text = <<71>>
  /\ BgcodeToAscii(CraftContainer(<<blocks[2], blocks[1]>>)).text = <<71>>

\* the compression field of block k of the written container
WrittenCompression(k) == UnpackH(content, layout[k].start + 2)

\* C13: every block an assembler writes, the GCode block included, has
\* compression None (0); neither writer takes a compression argument, so no
\* caller opts in and no GCode block is Deflate-compressed.
C13_NoDeflateByDefault ==
  Written => \A k \in 1..Len(layout) : WrittenCompression(k) = COMP_NONE

\* the blocks of the written container that are Thumbnail blocks
ThumbnailBlocks == {k \in 1..Len(layout) : WrittenTypes[k] = BLK_THUMBNAIL}

\* C14: the written container holds exactly len(L) Thumbnail blocks, in list
\* order after the first two blocks, the i-th uncompressed with the 6-byte
\* params (format 0, width, height as little-endian uint16) and a payload equal
\* to image_bytes_i; for the empty list, which is the default of the argument,
\* it holds no Thumbnail block, only the five other blocks.
C14_ThumbnailsEmbedded ==
  Written
  => /\ ThumbnailBlocks = {2 + i : i \in 1..Len(thumbnails)}
     /\ \A i \in 1..Len(thumbnails) :
          LET s == layout[2 + i].start
              e == layout[2 + i].end
              t == thumbnails[i]
          IN  /\ WrittenCompression(2 + i) = COMP_NONE
              /\ UnpackI(content, s + 4) = Len(t.png)
              /\ Slice(content, s + 8, s + 14)
                   = <<0, 0, t.w % 256, t.w \div 256, t.h % 256, t.h \div 256>>
              /\ Slice(content, s + 14, e - 4) = t.png
     /\ thumbnails = <<>> => (ThumbnailBlocks = {} /\ Len(layout) = 5)

C14_Witness ==
  /\ Written /\ pc = "written"
  /\ Len(thumbnails) = 2
  /\ thumbnails[1] # thumbnails[2]
  /\ thumbnails[1].png # <<>>
  /\ ThumbnailBlocks = {3, 4}

\* the payload of a hand-made block after decompression
RawPayload(b) == IF b.comp = COMP_DEFLATE THEN Inflate(b.payload).out ELSE b.payload

\* the decompressed payload bytes of the GCode blocks of bl, in file order
RECURSIVE GcodeBytes(_)
GcodeBytes(bl) ==
  IF bl = <<>> THEN <<>>
  ELSE (IF Head(bl).btype = BLK_GCODE THEN RawPayload(Head(bl)) ELSE <<>>)
       \o GcodeBytes(Tail(bl))

\* C15: for a well-formed container with one or more GCode blocks whose
\* decompressed payloads, concatenated in file order, are valid UTF-8, the
\* decode returns the UTF-8 decoding of that concatenation, wherever the block
\* boundaries fall in the byte stream.
C15_DecodesConcatenation ==
  (~Written /\ Done /\ GcodeCount(blocks) >= 1 /\ Decodable(GcodeBytes(blocks)))
  => (pc = "returned" /\ result.text = Utf8Decode(GcodeBytes(blocks)))

C17_AlwaysWrites ==
  /\ pc # "write_raised"
  /\ pc \notin {"start", "write_raised"} => Written
  /\ (Written /\ Done) => pc = "returned"

\* C18: for every buffer bgcode_to_ascii either returns a string or raises
\* ValueError (UnicodeDecodeError is one); no struct.error and no zlib.error
\* escapes, also for a corrupt Deflate stream, for bytes that are not UTF-8 and
\* for a buffer that was damaged or cut short.
C18_OnlyValueError ==
  /\ pc \in {"written", "loop", "returned", "raised"}
  /\ pc = "returned" => result.kind = "ok"
  /\ pc = "raised" => IsValueError(ExceptionClass(result.kind))

C18_Witness ==
  /\ pc = "raised"
  /\ damage.kind = "none"
  /\ Len(blocks) = 1
  /\ blocks[1].comp = COMP_DEFLATE
  /\ blocks[1].crc_ok
  /\ Inflate(blocks[1].payload).status = "error"
  /\ result.kind = "DeflateFailed"

\* four bytes at offset off read as a big-endian number
UnpackIBE(bytes, off) ==
  16777216 * At(bytes, off) + 65536 * At(bytes, off + 1) + 256 * At(bytes, off + 2)
  + At(bytes, off + 3)

\* the chunk that starts at offset off: its length field delimits the data
ChunkAt(bytes, off) ==
  LET n == UnpackIBE(bytes, off)
  IN  [tag  |-> Slice(bytes, off + 4, off + 8),
       body |-> Slice(bytes, off + 8, off + 8 + n),
       crc  |-> Slice(bytes, off + 8 + n, off + 12 + n),
       next |-> off + 12 + n]

\* the three chunks of a PNG that follow the 8-byte signature
PngChunks(bytes) ==
  LET c1 == ChunkAt(bytes, 8)
      c2 == ChunkAt(bytes, c1.next)
      c3 == ChunkAt(bytes, c2.next)
  IN  <<c1, c2, c3>>

\* C19: what _make_png returns is the 8-byte PNG signature followed by exactly
\* three chunks IHDR, IDAT, IEND that fill the rest, each a 4-byte big-endian
\* data length, the tag, the data and the big-endian CRC32 of tag + data; the
\* IHDR data is width, height, 8, 2, 0, 0, 0 and the IEND data is empty.
C19_PngLayout ==
  pc = "png_made" =>
    LET cs == PngChunks(png)
    IN  /\ Slice(png, 0, 8) = <<137, 80, 78, 71, 13, 10, 26, 10>>
        /\ cs[3].next = Len(png)
        /\ <<cs[1].tag, cs[2].tag, cs[3].tag>>
             = << <<73, 72, 68, 82>>, <<73, 68, 65, 84>>, <<73, 69, 78, 68>> >>
        /\ \A k \in 1..3 :
             /\ Len(cs[k].crc) = 4
             /\ <<cs[k].crc[4], cs[k].crc[3], cs[k].crc[2], cs[k].crc[1]>>
                  = Crc32Of(cs[k].tag \o cs[k].body)
        /\ Len(cs[1].body) = 13
        /\ UnpackIBE(cs[1].body, 0) = raster.width
        /\ UnpackIBE(cs[1].body, 4) = raster.height
        /\ Slice(cs[1].body, 8, 13) = <<8, 2, 0, 0, 0>>
        /\ cs[3].body = <<>>

\* a 2 by 1 image was made whose IDAT chunk holds data
C19_Witness ==
  /\ pc = "png_made"
  /\ raster.width = 2
  /\ raster.height = 1
  /\ Len(PngChunks(png)[2].body) > 8

\* the pixel stream that the IDAT chunk of the PNG inflates to
PngRaw == Inflate(PngChunks(png)[2].body)

\* C20: whenever the pixel list is long enough, _make_png returns, whatever the
\* channel values; the IDAT data inflates to exactly height * (1 + 3 * width)
\* bytes, each scanline is filter byte 0 followed by the row's pixels, and
\* every channel is stored as its value mod 256.
C20_ChannelsMasked ==
  /\ (pc = "png_raised" =>
        \/ raster.width < 0
        \/ raster.height < 0
        \/ Len(raster.pixels) < raster.width * raster.height)
  /\ (pc = "png_made" =>
        LET w == raster.width
            h == raster.height
        IN  /\ PngRaw.status = "ok"
            /\ Len(PngRaw.out) = h * (1 + 3 * w)
            /\ \A y \in 0..(h - 1) :
                 /\ At(PngRaw.out, y * (1 + 3 * w)) = 0
                 /\ \A x \in 0..(w - 1), c \in 1..3 :
                      At(PngRaw.out, y * (1 + 3 * w) + 1 + 3 * x + (c - 1))
                        = raster.pixels[y * w + x + 1][c] % 256)

\* an image was made that has a channel above 255 and a negative one
C20_Witness ==
  /\ pc = "png_made"
  /\ raster.width * raster.height >= 2
  /\ \E i \in 1..(raster.width * raster.height) :
       raster.pixels[i][1] > 255 /\ raster.pixels[i][2] < 0

\* the error that the checks of one iteration, taken in the order header,
\* size fields, bounds, checksum, decompression, encoding, decoding, report
\* for the hand-made block b of which avail bytes are in the buffer; "" if none
FirstFault(b, avail) ==
  IF avail < 8 THEN "TruncatedHeader"
  ELSE IF b.comp \in 1..3 /\ avail < 12 THEN "TruncatedHeader"
  ELSE IF b.comp > 3 THEN "UnknownCompression"
  ELSE IF avail < Len(CraftBlock(b)) THEN "TruncatedPayload"
  ELSE IF ~b.crc_ok THEN "CrcMismatch"
  ELSE IF b.btype # BLK_GCODE THEN ""
  ELSE IF b.comp \in 2..3 THEN "UnsupportedCompression"
  ELSE IF b.comp = COMP_DEFLATE /\ Inflate(b.payload).status = "error" THEN "DeflateFailed"
  ELSE IF b.enc # ENC_RAW THEN "UnsupportedEncoding"
  ELSE IF ~Decodable(IF b.comp = COMP_NONE THEN b.payload ELSE Inflate(b.payload).out)
    THEN "UnicodeDecodeError"
  ELSE ""

\* the hand-made block that starts at the offset the decoder is at or raised at
BlockAtPos(p) == CHOOSE k \in 1..Len(layout) : layout[k].start = p

\* the decoder is at, or raised at, a block of a hand-made container
AtBlock(p) == p < Len(data) /\ \E k \in 1..Len(layout) : layout[k].start = p

ParamsFit == Len(block_args.params) = ParamsLen(block_args.btype)

\* C22: a block that _block serialized, with compress False or True and params
\* of the length its type has, ends with the CRC32 of the contiguous bytes
\* before it and passes the parser: a block that is not GCode is stepped over,
\* and a GCode block with raw encoding yields the text of data (a
\* UnicodeDecodeError when data is not UTF-8), whether stored or deflated.
C22_BlockRoundTrip ==
  ParamsFit /\ pc \in {"written", "loop", "returned", "raised"} =>
    /\ Slice(data, Len(data) - 4, Len(data)) = Crc32Of(Slice(data, 10, Len(data) - 4))
    /\ UnpackH(data, 12) = (IF block_args.compress THEN COMP_DEFLATE ELSE COMP_NONE)
    /\ pc = "loop" /\ pos > 10 =>
         /\ pos = Len(data)
         /\ parts = IF block_args.btype = BLK_GCODE
                      THEN <<Utf8Decode(block_args.data)>> ELSE <<>>
    /\ pc = "returned" =>
         /\ block_args.btype = BLK_GCODE
         /\ result.text = Utf8Decode(block_args.data)
    /\ pc = "raised" =>
         \/ block_args.btype # BLK_GCODE /\ result.kind = "NoGCodeBlocks"
         \/ /\ block_args.btype = BLK_GCODE
            /\ block_args.params # <<0, 0>>
            /\ result.kind = "UnsupportedEncoding"
         \/ /\ block_args.btype = BLK_GCODE
            /\ block_args.params = <<0, 0>>
            /\ ~Decodable(block_args.data)
            /\ result.kind = "UnicodeDecodeError"

\* a deflated GCode block whose data has a repeated string (a 10-byte stream,
\* where literals alone take 12) was read back
C22_Witness ==
  /\ pc = "returned"
  /\ block_args.compress
  /\ block_args.data = <<65, 65, 65, 65, 65>>
  /\ result.text = <<65, 65, 65, 65, 65>>
  /\ UnpackI(data, 18) = 11

RECURSIVE BlockEnds(_, _)
\* the end offsets of the blocks read from offset off on, each taking 8 header
\* bytes, its params (6 for a thumbnail, 2 otherwise), as many payload bytes as
\* its size field says, and 4 checksum bytes; <<-1>> where no whole
\* uncompressed block fits
BlockEnds(bytes, off) ==
  IF off = Len(bytes) THEN <<>>
  ELSE IF off + 8 > Len(bytes) \/ UnpackH(bytes, off + 2) # 0 THEN <<-1>>
  ELSE LET size == 8 + (IF UnpackH(bytes, off) = 5 THEN 6 ELSE 2) + UnpackI(bytes, off + 4) + 4
       IN  IF off + size > Len(bytes) THEN <<-1>>
           ELSE <<off + size>> \o BlockEnds(bytes, off + size)

\* C23: what _write_bgcode writes is the 10-byte file header ('GCDE', version 1
\* as uint32 and checksum type 1 as uint16, little-endian) followed by blocks of
\* 8 + params_len + payload_len + 4 bytes (params_len 6 for Thumbnail, 2
\* otherwise) that partition the rest exactly, five of them plus one for each
\* thumbnail; dest is given these bytes in one write and their number is returned.
C23_ContainerLayout ==
  pc = "written" =>
    /\ Slice(content, 0, 10) = <<71, 67, 68, 69, 1, 0, 0, 0, 1, 0>>
    /\ BlockEnds(content, 10) = [k \in 1..(5 + Len(thumbnails)) |-> layout[k].end]
    /\ Len(layout) = 5 + Len(thumbnails)
    /\ layout[Len(layout)].end = Len(content)
    /\ wrote.writes = <<content>>
    /\ wrote.returned = Len(content)

\* a container with two thumbnails and a text was written
C23_Witness ==
  /\ pc = "written"
  /\ Len(thumbnails) = 2
  /\ gcode_text = <<233, 10>>
  /\ wrote.returned = Len(content)
  /\ Len(BlockEnds(content, 10)) = 7

IsEMove(line) == line.cmd = "G1" /\ line.axis = "E"

IsZMove(line) == line.cmd = "G0" /\ line.axis = "Z"

EMoves(lines) == SelectSeq(lines, IsEMove)

Emitted(old, new) == SubSeq(new.buf, Len(old.buf) + 1, Len(new.buf))

\* C24: after any sequence of _retract, _unretract, _travel (and layer change)
\* calls on a fresh generator, the emitted E moves alternate between a
\* retraction (E written with a minus sign) and an un-retraction, beginning
\* with a retraction; the retracted flag is true exactly when the last
\* emitted E move is a retraction; and a _retract call while retracted or an
\* _unretract call while not retracted emits nothing and changes no state.
C24_RetractBalanced ==
  /\ [](pc = "gen" =>
          /\ \A i \in 1..Len(EMoves(gen.buf)) : EMoves(gen.buf)[i].minus <=> (i % 2 = 1)
          /\ gen.st.retracted <=>
               (EMoves(gen.buf) # <<>> /\ EMoves(gen.buf)[Len(EMoves(gen.buf))].minus))
  /\ [][(pc = "gen" /\ (\/ gen'.call = "retract" /\ gen.st.retracted
                        \/ gen'.call = "unretract" /\ ~gen.st.retracted))
          => (gen'.st = gen.st /\ gen'.buf = gen.buf /\ gen'.cfg = gen.cfg)]_vars

C24_Witness ==
  /\ pc = "gen"
  /\ gen.call = "retract"
  /\ gen.st.retracted
  /\ Len(EMoves(gen.buf)) = 3
  /\ gen.calls = 4

\* C25: in every state reached through _retract, _unretract, _travel and the
\* layer change, hopped implies retracted; every Z move in the buffer lies
\* after a retraction move and before the next un-retraction move; a call of
\* _retract that sets hopped ends the buffer with the retraction move followed
\* by the Z raise, and a call of _unretract that clears hopped ends it with
\* the Z lowering followed by the un-retraction move.
C25_HopInsideRetraction ==
  /\ [](pc = "gen" =>
          /\ gen.st.hopped => gen.st.retracted
          /\ \A k \in 1..Len(gen.buf) :
               IsZMove(gen.buf[k]) =>
                 /\ EMoves(SubSeq(gen.buf, 1, k)) # <<>>
                 /\ EMoves(SubSeq(gen.buf, 1, k))[Len(EMoves(SubSeq(gen.buf, 1, k)))].minus
                 /\ EMoves(SubSeq(gen.buf, k, Len(gen.buf))) # <<>>
                      => ~EMoves(SubSeq(gen.buf, k, Len(gen.buf)))[1].minus)
  /\ [][(pc = "gen" /\ gen'.call = "retract" /\ ~gen.st.hopped /\ gen'.st.hopped)
          => Emitted(gen, gen') =
               <<RetractLine(gen.cfg), ZLine(gen.cfg, R(gen.st.z + gen.cfg.zhop, Z_PLACES))>>]_vars
  /\ [][(pc = "gen" /\ gen'.call = "unretract" /\ gen.st.hopped /\ ~gen'.st.hopped)
          => Emitted(gen, gen') =
               <<ZLine(gen.cfg, R(gen.st.z, Z_PLACES)), UnretractLine(gen.cfg)>>]_vars

C25_Witness ==
  /\ pc = "gen"
  /\ gen.call = "unretract"
  /\ Len(gen.buf) >= 5
  /\ IsZMove(gen.buf[Len(gen.buf) - 1])
  /\ gen.buf[Len(gen.buf) - 1].val = 400000
  /\ \E k \in 1..Len(gen.buf) : IsZMove(gen.buf[k]) /\ gen.buf[k].val = 200000

PixelX(cv, i) == (i - 1) % cv.w

PixelY(cv, i) == (i - 1) \div cv.w

InCanvas(cv, x, y) == 0 <= x /\ x < cv.w /\ 0 <= y /\ y < cv.h

PixelAt(cv, x, y) == cv.px[y * cv.w + x + 1]

Changed(c) == {i \in 1..Len(c.r.px) : i > Len(c.before) \/ c.r.px[i] # c.before[i]}

Between(v, lo, hi) == lo <= v /\ v <= hi

\* C26: on a w x h canvas, for all integer endpoints inside or outside it and
\* thickness >= 1, line leaves its loop (within max(dx, dy) + 1 iterations),
\* colours both endpoints that lie inside the canvas, and _set, fill_rect and
\* line raise no IndexError, leave the pixel list with exactly w*h entries,
\* and change only pixels of the canvas that the call's arguments cover.
C26_RasterBounded ==
  (pc = "canvas" /\ canvas.op # "new") =>
    /\ canvas.r.status = "done"
    /\ Len(canvas.r.px) = canvas.r.w * canvas.r.h
    /\ Len(canvas.before) = canvas.r.w * canvas.r.h
    /\ canvas.op = "set" =>
         /\ \A i \in Changed(canvas) :
              PixelX(canvas.r, i) = canvas.args[1] /\ PixelY(canvas.r, i) = canvas.args[2]
         /\ InCanvas(canvas.r, canvas.args[1], canvas.args[2]) =>
              PixelAt(canvas.r, canvas.args[1], canvas.args[2]) = canvas.args[3]
    /\ canvas.op = "fill_rect" =>
         \A i \in Changed(canvas) :
           /\ Between(PixelX(canvas.r, i), canvas.args[1], canvas.args[3] - 1)
           /\ Between(PixelY(canvas.r, i), canvas.args[2], canvas.args[4] - 1)
    /\ canvas.op = "line" =>
         /\ canvas.r.steps <=
              MaxInt(AbsInt(canvas.args[3] - canvas.args[1]),
                     AbsInt(canvas.args[4] - canvas.args[2])) + 1
         /\ InCanvas(canvas.r, canvas.args[1], canvas.args[2]) =>
              PixelAt(canvas.r, canvas.args[1], canvas.args[2]) = canvas.args[5]
         /\ InCanvas(canvas.r, canvas.args[3], canvas.args[4]) =>
              PixelAt(canvas.r, canvas.args[3], canvas.args[4]) = canvas.args[5]
         /\ \A i \in Changed(canvas) :
              /\ Between(PixelX(canvas.r, i),
                         MinInt(canvas.args[1], canvas.args[3]) - (canvas.args[6] \div 2),
                         MaxInt(canvas.args[1], canvas.args[3]) + (canvas.args[6] \div 2))
              /\ Between(PixelY(canvas.r, i),
                         MinInt(canvas.args[2], canvas.args[4]) - (canvas.args[6] \div 2),
                         MaxInt(canvas.args[2], canvas.args[4]) + (canvas.args[6] \div 2))

C26_Witness ==
  /\ pc = "canvas"
  /\ canvas.op = "line"
  /\ canvas.r.w = 2 /\ canvas.r.h = 2
  /\ canvas.args[1] = -1 /\ canvas.args[2] = -1
  /\ canvas.args[3] = 2 /\ canvas.args[4] = 1
  /\ canvas.args[6] = 1
  /\ canvas.r.steps = 4
  /\ Cardinality(Changed(canvas)) = 2

IsRefresh(req) == req.method = "POST" /\ req.url = "token"

IsRegister(req) == req.method = "POST" /\ req.url # "token"

IsPut(req) == req.method = "PUT"

\* C27: the requests to PrusaConnect go out in fixed order: a PUT directly
\* follows a registration POST that succeeded with a non-empty upload id and
\* carries that id; a POST or PUT is sent only when the token file was
\* readable with team_id and printer_uuid and, if the token was expired,
\* after a refresh request succeeded and the refreshed tokens were saved; a
\* run that ends without having sent the PUT ends with exit status 1.
C27_UploadOrder ==
  /\ [](pc = "upload" =>
          /\ \A i \in 1..Len(upload.sent) :
               /\ IsPut(upload.sent[i]) =>
                    /\ i > 1 /\ IsRegister(upload.sent[i - 1])
                    /\ upload.upload_id # ""
                    /\ upload.sent[i].url[3] = upload.upload_id
                    /\ i = Len(upload.sent)
               /\ (IsRegister(upload.sent[i]) \/ IsPut(upload.sent[i])) =>
                    /\ upload.token_file.file = "ok"
                    /\ upload.token_file.team_id # ""
                    /\ upload.token_file.printer_uuid # ""
                    /\ upload.token_file.expired =>
                         /\ IsRefresh(upload.sent[1])
                         /\ upload.saved # <<>>
                         /\ upload.saved[1].after < i
                         /\ upload.sent[i].bearer = upload.saved[1].tokens.access_token
                    /\ ~upload.token_file.expired => ~IsRefresh(upload.sent[1])
          /\ (upload.at \in {"exited", "done"}
                /\ \A i \in 1..Len(upload.sent) : ~IsPut(upload.sent[i]))
               => (upload.at = "exited" /\ upload.exit = 1))
  /\ [][(pc = "upload" /\ Len(upload'.sent) > Len(upload.sent)
           /\ IsPut(upload'.sent[Len(upload'.sent)]))
          => (upload.at = "registered" /\ upload.upload_id # "")]_vars
  /\ [][(pc = "upload" /\ upload'.at = "exited" /\ upload.at # "registered")
          => (upload'.exit = 1
              /\ \A i \in 1..Len(upload'.sent) : ~IsPut(upload'.sent[i]))]_vars

C27_Witness ==
  /\ pc = "upload"
  /\ upload.at = "done"
  /\ upload.token_file.expired
  /\ Len(upload.sent) = 3
  /\ IsPut(upload.sent[3])
  /\ upload.sent[3].bearer = "a1"

\* C28: a container whose bytes 4..9 (format version, checksum-algorithm
\* identifier) were rewritten decodes to the same outcome, the same text or
\* the same error at the same block, as the container with the header that
\* is written; no version and no checksum type is rejected.
C28_HeaderFieldsIgnored ==
  (pc \in {"returned", "raised"} /\ damage.kind = "header") =>
    \A written \in {CraftContainer(blocks)} :
      /\ Len(data) = Len(written)
      /\ \A i \in 0..(Len(data) - 1) : i \notin 4..9 => At(data, i) = At(written, i)
      /\ result = BgcodeToAscii(written)

C28_Witness ==
  /\ pc = "returned"
  /\ damage.kind = "header"
  /\ UnpackH(data, 4) = 2
  /\ UnpackH(data, 8) = 0
  /\ result.kind = "ok"
  /\ result.text = <<71, 10>>

\* C29: bgcode_to_ascii terminates on every buffer: in the loop the offset
\* lies between 10 and the buffer length; an iteration either raises or
\* moves the offset forward by at least 14 bytes (header 8, params 2,
\* checksum 4); the loop is left without a raise only with the offset equal
\* to the buffer length; and a call that entered the loop returns or raises.
C29_DecoderTerminates ==
  /\ [](pc = "loop" => (10 <= pos /\ pos <= Len(data)))
  /\ [][(pc = "loop" /\ pos < Len(data))
          => (pc' = "raised" \/ (pc' = "loop" /\ pos' >= pos + 14 /\ pos' <= Len(data)))]_vars
  /\ [][(pc = "loop" /\ pc' \in {"returned", "raised"} /\ result'.kind \in {"ok", "NoGCodeBlocks"})
          => pos = Len(data)]_vars
  /\ [][(pc = "loop" /\ pos = Len(data)) => pc' \in {"returned", "raised"}]_vars
  /\ (pc = "loop") ~> (pc \in {"returned", "raised"})

C29_Witness ==
  /\ pc = "returned"
  /\ damage.kind = "byte"
  /\ pos = Len(data)
  /\ pos >= 10 + 14 + 15
  /\ Len(parts) = 2

\* the blocks bl with the uncompressed size of every compressed block set to u
WithSize(bl, u) ==
  [i \in 1..Len(bl) |-> IF bl[i].comp = COMP_NONE THEN bl[i] ELSE [bl[i] EXCEPT !.usize = u]]

StoredCrc(bytes, blk) == Slice(bytes, blk.end - 4, blk.end)

\* C30: the uncompressed_size of a Deflate block is covered by the checksum
\* (another value gives another checksum, and the block still passes the
\* check) but is not compared with the inflated data: a container decodes to
\* the same outcome, the same text or the same error, as the container
\* whose Deflate blocks differ from its own only in uncompressed_size and
\* checksum.
C30_UncompressedSizeUnused ==
  (pc \in {"returned", "raised"}) =>
    \A other \in {CraftContainer(WithSize(blocks, 1))} :
      /\ Len(other) = Len(data)
      /\ result = BgcodeToAscii(other)
      /\ result.kind # "CrcMismatch"
      /\ \A i \in 1..Len(blocks) :
           (StoredCrc(data, layout[i]) # StoredCrc(other, layout[i]))
             <=> (blocks[i].comp # COMP_NONE /\ blocks[i].usize # 1)

C30_Witness ==
  /\ pc = "returned"
  /\ Len(blocks) = 2
  /\ blocks[1].usize = 70000 /\ blocks[1].payload = Deflate(<<71>>)
  /\ blocks[2].usize = 0 /\ blocks[2].payload = Deflate(<<71, 10>>)
  /\ result.kind = "ok"
  /\ result.text = <<71, 71, 10>>

====
